---- MODULE Spec2Model ----
(***************************************************************************)
(* Pixel card pipeline: the validation layer (lib/validation), the upload  *)
(* service (services/pixelCardService) and the repository read path        *)
(* (services/pixelCardRepository), over a backend made of one blob bucket  *)
(* and one metadata table; and the two components of the page,             *)
(* PixelIDCardGenerator with its handlePhotoCapture executions and         *)
(* CameraView with its camera streams.                                     *)
(*                                                                         *)
(* Strings are sequences of one-character strings.  A data URI is kept as  *)
(* its head (the text up to and including the first comma) and the shape   *)
(* of the segment after it: n characters followed by k '=' characters.     *)
(***************************************************************************)
EXTENDS Integers, Sequences, FiniteSets, TLC

VARIABLES
    probe,      \* one application of a pure function: [fn, name, image, request, id, done, out]
    calls,      \* calls[c]: one savePixelCard execution (position, locals, outcome)
    storage,    \* the blob bucket: set of [path, size, contentType]
    table,      \* pixel_cards: sequence of rows in insertion order
    lastRead,   \* the last repository read: [op, id, queries, outcome, value, error]
    ui,         \* PixelIDCardGenerator's state: step, userName, processedImage, ...
    chains,     \* chains[k]: the k-th handlePhotoCapture execution
    camera      \* CameraView: its state, its video element and the streams it obtained

vars == <<probe, calls, storage, table, lastRead, ui, chains, camera>>

----------------------------------------------------------------------------
(* Bounds of the model *)

\* names are probed with up to MaxPad blanks on either side
MaxPad == 1
\* lengths are probed up to Window and within Window of each limit
Window == 3
\* number of savePixelCard executions that may overlap
NumCalls == 2
\* contents given to calculateBase64FileSize have at most MaxContent characters
MaxContent == 4
\* number of handlePhotoCapture executions in one run of the page
MaxChains == 2
\* number of camera streams one CameraView asks for
MaxStreams == 3

----------------------------------------------------------------------------
(* Characters *)

LowerCase == {"a","b","c","d","e","f","g","h","i","j","k","l","m",
              "n","o","p","q","r","s","t","u","v","w","x","y","z"}
UpperCase == {"A","B","C","D","E","F","G","H","I","J","K","L","M",
              "N","O","P","Q","R","S","T","U","V","W","X","Y","Z"}
Digits == {"0","1","2","3","4","5","6","7","8","9"}
\* what \s and String.prototype.trim treat as blank (the ones the model uses)
Whitespace == {" ", "\t", "\n"}

\* a value that is not a string (undefined)
Undefined == <<"undefined">>

RECURSIVE TrimStart(_)
TrimStart(s) ==
    IF s = <<>> THEN <<>>
    ELSE IF Head(s) \in Whitespace THEN TrimStart(Tail(s)) ELSE s

RECURSIVE TrimEnd(_)
TrimEnd(s) ==
    IF s = <<>> THEN <<>>
    ELSE IF s[Len(s)] \in Whitespace THEN TrimEnd(SubSeq(s, 1, Len(s) - 1)) ELSE s

\* String.prototype.trim
Trim(s) == TrimEnd(TrimStart(s))

----------------------------------------------------------------------------
(* lib/validation: limits *)

USER_NAME_MAX_LENGTH == 50
USER_NAME_MIN_LENGTH == 1
IMAGE_MAX_SIZE_BYTES == 10 * 1024 * 1024
ALLOWED_MIME_TYPES == {"image/png", "image/jpeg"}

\* [isValid, errors] as the validators return it
Result(errs) == [isValid |-> (Len(errs) = 0), errors |-> errs]

\* s \o <<e>> when cond, else s: errors.push under an if
PushIf(cond, s, e) == IF cond THEN Append(s, e) ELSE s

----------------------------------------------------------------------------
(* lib/validation: validateUserName *)

\* the character class of validNamePattern, [a-zA-Z0-9\s\-_'.]
NameChar(c) ==
    c \in LowerCase \cup UpperCase \cup Digits \cup Whitespace \cup {"-", "_", "'", "."}

\* /^[a-zA-Z0-9\s\-_'.]+$/.test(s)
validNamePattern(s) == Len(s) >= 1 /\ \A i \in 1..Len(s) : NameChar(s[i])

\* validateUserName judging the name as given, blanks included
validateUserName_Untrimmed(userName) ==
    IF userName = Undefined \/ userName = <<>>
    THEN [isValid |-> FALSE, errors |-> <<"User name is required">>]
    ELSE LET e1 == PushIf(Len(userName) < USER_NAME_MIN_LENGTH, <<>>,
                          "User name cannot be empty")
             e2 == PushIf(Len(userName) > USER_NAME_MAX_LENGTH, e1,
                          "User name cannot exceed 50 characters")
             e3 == PushIf(~validNamePattern(userName), e2,
                          "User name contains invalid characters")
         IN  Result(e3)

validateUserName(userName) ==
    IF userName = Undefined \/ userName = <<>>
    THEN [isValid |-> FALSE, errors |-> <<"User name is required">>]
    ELSE LET trimmedName == Trim(userName)
             e1 == PushIf(Len(trimmedName) < USER_NAME_MIN_LENGTH, <<>>,
                          "User name cannot be empty")
             e2 == PushIf(Len(trimmedName) > USER_NAME_MAX_LENGTH, e1,
                          "User name cannot exceed 50 characters")
             e3 == PushIf(~validNamePattern(trimmedName), e2,
                          "User name contains invalid characters")
         IN  Result(e3)

----------------------------------------------------------------------------
(* Data URIs *)

\* heads of image strings: the text up to and including the first comma,
\* as tokens; <<>> is a string that starts with its payload (or is empty)
PngHead == <<"data:", "image/png", ";base64,">>
JpegHead == <<"data:", "image/jpeg", ";base64,">>
ImageHeads ==
    { PngHead, JpegHead,
      <<"data:", "image/gif", ";base64,">>,
      <<"data:", "image/PNG", ";base64,">>,
      <<"data:", "text/plain", ";base64,">>,
      <<"image/png", ";base64,">>,
      <<"data:", "image/png", ";base64">>,
      <<"data:", "image/png", ",">>,
      <<>> }

\* an image string: head, then n characters, then k '=' characters;
\* clean: the n characters are all of [A-Za-z0-9+/]
ImageString(h, n, k, c) == [kind |-> "string", head |-> h, n |-> n, k |-> k, clean |-> c]
UndefinedImage == [kind |-> "undefined", head |-> <<>>, n |-> 0, k |-> 0, clean |-> TRUE]

\* !imageData || typeof imageData !== 'string'
IsBlankImage(img) ==
    img.kind = "undefined" \/ (img.head = <<>> /\ img.n = 0 /\ img.k = 0)

\* the head contains a comma, so split(',') has a second element
HasComma(img) ==
    img.head # <<>> /\ img.head[Len(img.head)] \in {";base64,", ","}

\* imageData.split(',')[1] is missing or ''
NoBase64Data(img) == ~HasComma(img) \/ (img.n = 0 /\ img.k = 0)

\* base64Data.length
Base64Length(img) == img.n + img.k

\* VALIDATION_LIMITS.BASE64_IMAGE_PREFIX_PATTERN.test(imageData)
BASE64_IMAGE_PREFIX_PATTERN(img) ==
    /\ Len(img.head) = 3
    /\ img.head[1] = "data:"
    /\ img.head[2] \in {"image/png", "image/jpeg"}
    /\ img.head[3] = ";base64,"

\* /^[A-Za-z0-9+/]*={0,2}$/.test(base64Data)
base64Pattern(img) == img.clean /\ img.k <= 2

\* (base64Data.length * 3) / 4 > IMAGE_MAX_SIZE_BYTES, over the rationals
EstimateExceeds(img) == Base64Length(img) * 3 > 4 * IMAGE_MAX_SIZE_BYTES

\* validateImageData without the size estimate
validateImageData_NoSizeCheck(imageData) ==
    IF IsBlankImage(imageData)
    THEN [isValid |-> FALSE, errors |-> <<"Image data is required">>]
    ELSE IF ~BASE64_IMAGE_PREFIX_PATTERN(imageData)
    THEN [isValid |-> FALSE,
          errors |-> <<"Image data must be a valid PNG or JPEG in base64 format">>]
    ELSE IF NoBase64Data(imageData)
    THEN [isValid |-> FALSE, errors |-> <<"Invalid base64 image format">>]
    ELSE IF ~base64Pattern(imageData)
    THEN [isValid |-> FALSE, errors |-> <<"Invalid base64 encoding">>]
    ELSE Result(<<>>)

validateImageData(imageData) ==
    IF IsBlankImage(imageData)
    THEN [isValid |-> FALSE, errors |-> <<"Image data is required">>]
    ELSE IF ~BASE64_IMAGE_PREFIX_PATTERN(imageData)
    THEN [isValid |-> FALSE,
          errors |-> <<"Image data must be a valid PNG or JPEG in base64 format">>]
    ELSE IF NoBase64Data(imageData)
    THEN [isValid |-> FALSE, errors |-> <<"Invalid base64 image format">>]
    ELSE IF ~base64Pattern(imageData)
    THEN [isValid |-> FALSE, errors |-> <<"Invalid base64 encoding">>]
    ELSE Result(PushIf(EstimateExceeds(imageData), <<>>,
                       "Image size exceeds maximum limit of 10MB"))

\* extractMimeTypeFromDataUri: /^data:([^;]+);base64,/, "" for null
extractMimeTypeFromDataUri(dataUri) ==
    IF /\ Len(dataUri.head) = 3
       /\ dataUri.head[1] = "data:"
       /\ dataUri.head[3] = ";base64,"
    THEN dataUri.head[2]
    ELSE ""

----------------------------------------------------------------------------
(* lib/validation: validateCreatePixelCardRequest *)

\* a request object; NoRequest is a request that is not an object
Request(name, img) == [isObject |-> TRUE, userName |-> name, imageData |-> img]
NoRequest == [isObject |-> FALSE, userName |-> Undefined, imageData |-> UndefinedImage]

\* validateCreatePixelCardRequest returning at the first invalid field
validateCreatePixelCardRequest_FirstOnly(request) ==
    IF ~request.isObject
    THEN [isValid |-> FALSE, errors |-> <<"Request data is required">>]
    ELSE LET userNameValidation == validateUserName(request.userName)
             imageDataValidation == validateImageData(request.imageData)
         IN  IF ~userNameValidation.isValid
             THEN Result(userNameValidation.errors)
             ELSE Result(imageDataValidation.errors)

validateCreatePixelCardRequest(request) ==
    IF ~request.isObject
    THEN [isValid |-> FALSE, errors |-> <<"Request data is required">>]
    ELSE LET userNameValidation == validateUserName(request.userName)
             imageDataValidation == validateImageData(request.imageData)
             e1 == IF ~userNameValidation.isValid
                   THEN userNameValidation.errors ELSE <<>>
             e2 == IF ~imageDataValidation.isValid
                   THEN e1 \o imageDataValidation.errors ELSE e1
         IN  Result(e2)

----------------------------------------------------------------------------
(* services/pixelCardService: processImageData *)

NoBytes == -1

\* atob(base64Data): the number of decoded bytes, NoBytes when atob throws
atob(img) ==
    LET L == Base64Length(img)
        \* a string whose length is a multiple of 4 loses up to two trailing '='
        stripped == IF L % 4 = 0 THEN (IF img.k <= 2 THEN img.k ELSE 2) ELSE 0
        restPad == img.k - stripped
        rest == img.n + restPad
    IN  IF ~img.clean \/ restPad > 0 \/ rest % 4 = 1
        THEN NoBytes
        ELSE (rest * 3) \div 4

Failure(msg) == [ok |-> FALSE, error |-> msg, mimeType |-> "", fileSize |-> 0]
Decoded(mime, size) == [ok |-> TRUE, error |-> "", mimeType |-> mime, fileSize |-> size]

processImageData(imageData) ==
    IF imageData.kind = "undefined"
    THEN Failure("TypeError: cannot read properties of undefined")
    ELSE LET mimeType == extractMimeTypeFromDataUri(imageData)
             fileSize == atob(imageData)
         IN  IF mimeType = "" \/ mimeType \notin ALLOWED_MIME_TYPES
             THEN Failure("Unsupported image format")
             ELSE IF NoBase64Data(imageData)
             THEN Failure("No image data found")
             ELSE IF fileSize = NoBytes
             THEN Failure("InvalidCharacterError: the string is not correctly encoded")
             ELSE IF fileSize > IMAGE_MAX_SIZE_BYTES
             THEN Failure("File size exceeds maximum allowed size of 10MB")
             ELSE IF fileSize = 0
             THEN Failure("Image data is empty")
             ELSE Decoded(mimeType, fileSize)

----------------------------------------------------------------------------
(* Inputs of the pure functions *)

Repeat(ch, n) == [i \in 1..n |-> ch]

\* characters put into a name: of the class, blank, and outside the class
ProbeChars == {"Z", "7", " ", "\t", "-", "_", "'", ".", "!", "#", "@"}

\* lengths of the part of a name between its blanks
BodyLengths ==
    (0..Window)
    \cup ((USER_NAME_MAX_LENGTH - Window)..(USER_NAME_MAX_LENGTH + Window))

\* n letters, one of them (the first, the middle or the last) possibly
\* replaced by a probe character
NameBodies ==
    { Repeat("a", n) : n \in BodyLengths }
    \cup { [i \in 1..t[1] |-> IF i = t[2] THEN t[3] ELSE "a"] :
             t \in UNION { {n} \X {1, (n + 1) \div 2, n} \X ProbeChars :
                             n \in BodyLengths \ {0} } }

NameInputs ==
    { Repeat(t[3], t[1]) \o t[4] \o Repeat(t[3], t[2]) :
        t \in (0..MaxPad) \X (0..MaxPad) \X {" ", "\t"} \X NameBodies }
    \cup {Undefined}

\* the largest base64 length whose estimate does not exceed the size limit
Boundary == (4 * IMAGE_MAX_SIZE_BYTES) \div 3

\* 11 MiB encoded: 15379115 characters and one '='
ElevenMiB == ImageString(PngHead, 15379115, 1, TRUE)

PayloadLengths == (0..(Window + 1)) \cup ((Boundary - Window)..(Boundary + Window))

ImageInputs ==
    { ImageString(t[1], t[2], t[3], t[4]) :
        t \in ImageHeads \X PayloadLengths \X (0..3) \X BOOLEAN }
    \cup {ElevenMiB, UndefinedImage}

\* a few names of each kind, for whole requests
RequestNames ==
    { Undefined, <<>>, <<" ">>, <<"A", "l">>, <<"A", "!">>,
      Repeat("a", USER_NAME_MAX_LENGTH + 1),
      <<" ">> \o Repeat("a", USER_NAME_MAX_LENGTH) \o <<" ">> }

RequestInputs ==
    { Request(t[1], t[2]) : t \in RequestNames \X ImageInputs } \cup {NoRequest}

NoOutput == [isValid |-> FALSE, errors |-> <<>>]
Pending(fn, arg) == [fn |-> fn, arg |-> arg, done |-> FALSE, out |-> NoOutput]
Idle == Pending("none", <<>>)

----------------------------------------------------------------------------
(* Applications of the validators *)

Apply(fn, out) ==
    /\ probe.fn = fn
    /\ ~probe.done
    /\ probe' = [probe EXCEPT !.done = TRUE, !.out = out]
    /\ UNCHANGED <<calls, storage, table, lastRead, ui, chains, camera>>

CallValidateUserName == Apply("validateUserName", validateUserName(probe.arg))

CallValidateImageData == Apply("validateImageData", validateImageData(probe.arg))

CallValidateCreatePixelCardRequest ==
    Apply("validateCreatePixelCardRequest", validateCreatePixelCardRequest(probe.arg))

\* Math.max and Math.min of two integers
Max(a, b) == IF a >= b THEN a ELSE b
Min(a, b) == IF a <= b THEN a ELSE b

----------------------------------------------------------------------------
(* Pagination arguments: lib/validation validatePaginationParams and        *)
(* lib/type-validation validateAndNormalizePagination                       *)

\* a value passed where a number is expected: a number counted in halves
\* (3 halves is 1.5), NaN, undefined, or a string
NumberOf(halves) == [kind |-> "number", halves |-> halves]
Whole(n) == NumberOf(2 * n)
NaN == [kind |-> "NaN", halves |-> 0]
UndefinedNumber == [kind |-> "undefined", halves |-> 0]
NumericString == [kind |-> "string", halves |-> 0]

\* !value: undefined, NaN and 0 are falsy
Falsy(value) ==
    value.kind \in {"undefined", "NaN"} \/ (value.kind = "number" /\ value.halves = 0)

\* Math.floor of a number
Floor(value) == value.halves \div 2

\* value < n and value > n; every comparison with NaN is false
LessThan(value, n) == value.kind = "number" /\ value.halves < 2 * n
GreaterThan(value, n) == value.kind = "number" /\ value.halves > 2 * n

PAGINATION_MAX_LIMIT == 100
PAGINATION_DEFAULT_LIMIT == 20

PageMessage == "Page must be a positive number starting from 1"
LimitMessage == "Limit must be a number between 1 and 100"

validatePaginationParams(page, limit) ==
    LET e1 == PushIf(/\ page.kind # "undefined"
                     /\ (page.kind \notin {"number", "NaN"} \/ LessThan(page, 1)),
                     <<>>, PageMessage)
        e2 == PushIf(/\ limit.kind # "undefined"
                     /\ \/ limit.kind \notin {"number", "NaN"}
                        \/ LessThan(limit, 1)
                        \/ GreaterThan(limit, 100),
                     e1, LimitMessage)
    IN  Result(e2)

\* validateAndNormalizePagination without the upper bound of the limit
validateAndNormalizePagination_NoUpperBound(page, limit) ==
    LET safePage == Max(1, Floor(IF Falsy(page) THEN Whole(1) ELSE page))
        safeLimit == Max(1, Floor(IF Falsy(limit)
                                  THEN Whole(PAGINATION_DEFAULT_LIMIT) ELSE limit))
    IN  [page |-> safePage, limit |-> safeLimit, offset |-> (safePage - 1) * safeLimit]

validateAndNormalizePagination(page, limit) ==
    LET safePage == Max(1, Floor(IF Falsy(page) THEN Whole(1) ELSE page))
        safeLimit == Min(PAGINATION_MAX_LIMIT,
                         Max(1, Floor(IF Falsy(limit)
                                      THEN Whole(PAGINATION_DEFAULT_LIMIT) ELSE limit)))
    IN  [page |-> safePage, limit |-> safeLimit, offset |-> (safePage - 1) * safeLimit]

CallValidatePaginationParams ==
    Apply("validatePaginationParams",
          validatePaginationParams(probe.arg.page, probe.arg.limit))

CallValidateAndNormalizePagination ==
    Apply("validateAndNormalizePagination",
          validateAndNormalizePagination(probe.arg.page, probe.arg.limit))

----------------------------------------------------------------------------
(* lib/type-validation: calculateBase64FileSize, over character sequences *)

\* the positions of the commas of a text, and the least element of a set
Commas(text) == { i \in 1..Len(text) : text[i] = "," }
Least(S) == CHOOSE i \in S : \A j \in S : i <= j

\* text.split(',')[1]: what stands between the first comma and the next one
SecondPiece(text) ==
    LET first == Least(Commas(text))
        later == { i \in Commas(text) : i > first }
    IN  SubSeq(text, first + 1, IF later = {} THEN Len(text) ELSE Least(later) - 1)

\* (base64Content.match(/=/g) || []).length
PaddingCount(text) == Cardinality({ i \in 1..Len(text) : text[i] = "=" })

\* calculateBase64FileSize without the subtraction of the padding
calculateBase64FileSize_PaddingKept(base64Data) ==
    LET base64Content == IF Commas(base64Data) # {} THEN SecondPiece(base64Data)
                         ELSE base64Data
    IN  (Len(base64Content) * 3) \div 4

calculateBase64FileSize(base64Data) ==
    LET base64Content == IF Commas(base64Data) # {} THEN SecondPiece(base64Data)
                         ELSE base64Data
        padding == PaddingCount(base64Content)
    IN  (Len(base64Content) * 3) \div 4 - padding

\* the text of an argument: the content, behind a data-URI prefix or bare
DataUriPrefix ==
    <<"d", "a", "t", "a", ":", "i", "m", "a", "g", "e", "/", "p", "n", "g",
      ";", "b", "a", "s", "e", "6", "4", ",">>
TextOf(arg) == IF arg.prefixed THEN DataUriPrefix \o arg.content ELSE arg.content

CallCalculateBase64FileSize ==
    Apply("calculateBase64FileSize", calculateBase64FileSize(TextOf(probe.arg)))

----------------------------------------------------------------------------
(* The backend: blob bucket 'pixel-images' and table pixel_cards *)

STORAGE_BUCKET == "pixel-images"

\* results of crypto.randomUUID()
Uuids == {"uuid-1", "uuid-2"}

\* error messages the backend reports
UploadErrors == {"Bucket not found"}
DuplicateError == "The resource already exists"
InsertErrors == {"permission denied for table pixel_cards"}

\* a timestamp string of the backend: an instant and its sub-millisecond digits
Timestamp(ms) == [ms |-> ms, us |-> 0]

\* new Date(string): an instant with millisecond precision
NewDate(ts) == [ms |-> ts.ms]

\* Date.prototype.toISOString: the instant written with milliseconds
toISOString(date) == [ms |-> date.ms, us |-> 0]

\* identifiers the table gives to its rows, in order (gen_random_uuid)
HexDigits == Digits \cup {"a", "b", "c", "d", "e", "f"}
DigitChars == <<"0", "1", "2", "3", "4", "5", "6", "7", "8", "9">>
RowId(i) ==
    [p \in 1..36 |->
        IF p \in {9, 14, 19, 24} THEN "-"
        ELSE IF p = 15 THEN "4"
        ELSE IF p = 20 THEN "a"
        ELSE IF p = 35 THEN DigitChars[((i \div 10) % 10) + 1]
        ELSE IF p = 36 THEN DigitChars[(i % 10) + 1]
        ELSE "0"]

BlobPaths(store) == { b.path : b \in store }

\* getPublicUrl(path).data.publicUrl
PublicUrl(path) == <<"https://backend/storage/v1/object/public", STORAGE_BUCKET, path>>

----------------------------------------------------------------------------
(* services/pixelCardService: savePixelCard *)

Calls == 1..NumCalls

NoPath == <<>>
NoResponse == <<>>
NoError == <<>>

IdleCall ==
    [pc |-> "idle", request |-> NoRequest, steps |-> <<>>,
     imagePath |-> NoPath, fileSize |-> 0, mimeType |-> "", imageUrl |-> <<>>,
     uploaded |-> FALSE, failedStep |-> "", error |-> NoError, response |-> NoResponse]

\* throw new Error(text) in step `step`; detail is the interpolated part
Throw(call, step, text, detail) ==
    [call EXCEPT !.pc = "failed", !.failedStep = step, !.error = <<text, detail>>]

\* generateUniqueFilename: `${uuid}.${extension}`
generateUniqueFilename(uuid, mimeType) ==
    <<uuid, IF mimeType = "image/png" THEN "png" ELSE "jpg">>

\* generateImagePath: `${year}/${month}/${filename}`
generateImagePath(filename) == <<"2026", "11">> \o filename

\* the messages of the four steps
ValidationFailed == "Validation failed"
\* the upload failure reported with the text of the insert failure
StorageUploadFailed_AsInsert == "Database insert failed"
StorageUploadFailed == "Storage upload failed"
NoPathReturned == "Upload succeeded but no path returned"
NoPublicUrl == "Failed to get public URL for uploaded image"
DatabaseInsertFailed == "Database insert failed"
NoDataReturned == "Insert succeeded but no data returned"

\* the name stored in the row: request.userName as given
InsertUserName(request) == request.userName

\* savePixelCard up to its first await: validate, decode, name the blob, send it
BeginSave(call, request, uuid) ==
    LET validation == validateCreatePixelCardRequest(request)
        image == processImageData(request.imageData)
        call0 == [call EXCEPT !.request = request]
    IN  IF ~validation.isValid
        THEN Throw([call0 EXCEPT !.steps = <<"validate">>], "validate",
                   ValidationFailed, validation.errors)
        ELSE IF ~image.ok
        THEN Throw([call0 EXCEPT !.steps = <<"validate", "decode">>], "decode",
                   image.error, <<>>)
        ELSE [call0 EXCEPT
                !.pc = "uploading",
                !.steps = <<"validate", "decode", "upload">>,
                !.mimeType = image.mimeType,
                !.fileSize = image.fileSize,
                !.imagePath = generateImagePath(
                                  generateUniqueFilename(uuid, image.mimeType))]

StartSave(c, requests) ==
    /\ calls[c].pc = "idle"
    /\ \E request \in requests, uuid \in Uuids :
        calls' = [calls EXCEPT ![c] = BeginSave(calls[c], request, uuid)]
    /\ UNCHANGED <<probe, storage, table, lastRead, ui, chains, camera>>

\* uploadImage not looking at the error of a refused upload
UploadFails_ErrorIgnored(c) ==
    /\ calls[c].pc = "uploading"
    /\ calls' = [calls EXCEPT ![c] =
                    [calls[c] EXCEPT
                        !.pc = "inserting",
                        !.steps = Append(@, "insert"),
                        !.imageUrl = PublicUrl(calls[c].imagePath)]]
    /\ UNCHANGED <<probe, storage, table, lastRead, ui, chains, camera>>

\* the upload is refused (upsert: false refuses an existing path)
UploadFails(c) ==
    /\ calls[c].pc = "uploading"
    /\ \E msg \in UploadErrors \cup {DuplicateError} :
        /\ msg = DuplicateError => calls[c].imagePath \in BlobPaths(storage)
        /\ calls' = [calls EXCEPT ![c] =
                        Throw(calls[c], "upload", StorageUploadFailed, msg)]
    /\ UNCHANGED <<probe, storage, table, lastRead, ui, chains, camera>>

\* an upload with upsert: true, which replaces the blob already at the path
UploadSucceeds_Upsert(c) ==
    /\ calls[c].pc = "uploading"
    /\ storage' = { b \in storage : b.path # calls[c].imagePath } \cup
            {[path |-> calls[c].imagePath, size |-> calls[c].fileSize,
              contentType |-> calls[c].mimeType]}
    /\ calls' = [calls EXCEPT ![c] =
                    [calls[c] EXCEPT
                        !.uploaded = TRUE,
                        !.pc = "inserting",
                        !.steps = Append(@, "insert"),
                        !.imageUrl = PublicUrl(calls[c].imagePath)]]
    /\ UNCHANGED <<probe, table, lastRead, ui, chains, camera>>

\* the upload is stored; uploadImage continues to getPublicUrl and
\* savePixelCard sends the insert
UploadSucceeds(c) ==
    /\ calls[c].pc = "uploading"
    /\ calls[c].imagePath \notin BlobPaths(storage)
    /\ storage' = storage \cup
            {[path |-> calls[c].imagePath, size |-> calls[c].fileSize,
              contentType |-> calls[c].mimeType]}
    /\ \E hasPath \in BOOLEAN, hasUrl \in BOOLEAN :
        LET call1 == [calls[c] EXCEPT !.uploaded = TRUE]
        IN  calls' = [calls EXCEPT ![c] =
                IF ~hasPath THEN Throw(call1, "upload", NoPathReturned, <<>>)
                ELSE IF ~hasUrl THEN Throw(call1, "upload", NoPublicUrl, <<>>)
                ELSE [call1 EXCEPT
                        !.pc = "inserting",
                        !.steps = Append(@, "insert"),
                        !.imageUrl = PublicUrl(calls[c].imagePath)]]
    /\ UNCHANGED <<probe, table, lastRead, ui, chains, camera>>

\* a refused insert followed by the removal of the uploaded blob
InsertRefused_BlobRemoved(call, msg, store) ==
    [call |-> Throw(call, "insert", DatabaseInsertFailed, msg),
     storage |-> { b \in store : b.path # call.imagePath }]

\* what saveToDatabase does when the insert is refused
InsertRefused(call, msg, store) ==
    [call |-> Throw(call, "insert", DatabaseInsertFailed, msg), storage |-> store]

InsertFails(c) ==
    /\ calls[c].pc = "inserting"
    /\ \E msg \in InsertErrors :
        LET after == InsertRefused(calls[c], msg, storage)
        IN  /\ calls' = [calls EXCEPT ![c] = after.call]
            /\ storage' = after.storage
    /\ UNCHANGED <<probe, table, lastRead, ui, chains, camera>>

\* transformToResponse(saveToDatabase's PixelCard)
transformToResponse(pixelCard) ==
    [id |-> pixelCard.id, userName |-> pixelCard.userName,
     imageUrl |-> pixelCard.imageUrl, createdAt |-> toISOString(pixelCard.createdAt),
     fileSize |-> pixelCard.fileSize]

\* the row is stored; saveToDatabase maps the returned row and
\* savePixelCard returns the response
InsertSucceeds(c) ==
    /\ calls[c].pc = "inserting"
    /\ LET now == Timestamp(Len(table) + 1)
           row == [id |-> RowId(Len(table) + 1),
                   user_name |-> InsertUserName(calls[c].request),
                   image_path |-> calls[c].imagePath,
                   image_url |-> calls[c].imageUrl,
                   created_at |-> now, updated_at |-> now,
                   file_size |-> calls[c].fileSize,
                   mime_type |-> calls[c].mimeType]
           pixelCard == [id |-> row.id, userName |-> row.user_name,
                         imagePath |-> row.image_path, imageUrl |-> row.image_url,
                         createdAt |-> NewDate(row.created_at),
                         updatedAt |-> NewDate(row.updated_at),
                         fileSize |-> row.file_size, mimeType |-> row.mime_type]
       IN  /\ table' = Append(table, row)
           /\ \E hasData \in BOOLEAN :
                calls' = [calls EXCEPT ![c] =
                    IF ~hasData THEN Throw(calls[c], "insert", NoDataReturned, <<>>)
                    ELSE [calls[c] EXCEPT !.pc = "done",
                                          !.response = <<transformToResponse(pixelCard)>>]]
    /\ UNCHANGED <<probe, storage, lastRead, ui, chains, camera>>

----------------------------------------------------------------------------
(* services/pixelCardRepository: getPixelCardById *)

HexChars == HexDigits \cup {"A", "B", "C", "D", "E", "F"}

\* the pattern without its end anchor
isValidUUID_Unanchored(uuid) ==
    /\ Len(uuid) >= 36
    /\ \A p \in 1..36 :
        IF p \in {9, 14, 19, 24} THEN uuid[p] = "-"
        ELSE IF p = 15 THEN uuid[p] \in {"1", "2", "3", "4", "5"}
        ELSE IF p = 20 THEN uuid[p] \in {"8", "9", "a", "b", "A", "B"}
        ELSE uuid[p] \in HexChars

\* /^[0-9a-f]{8}-[0-9a-f]{4}-[1-5][0-9a-f]{3}-[89ab][0-9a-f]{3}-[0-9a-f]{12}$/i
isValidUUID(uuid) ==
    /\ Len(uuid) = 36
    /\ \A p \in 1..36 :
        IF p \in {9, 14, 19, 24} THEN uuid[p] = "-"
        ELSE IF p = 15 THEN uuid[p] \in {"1", "2", "3", "4", "5"}
        ELSE IF p = 20 THEN uuid[p] \in {"8", "9", "a", "b", "A", "B"}
        ELSE uuid[p] \in HexChars

\* the uuid column compares without regard to letter case
LowerHex(ch) ==
    CASE ch = "A" -> "a" [] ch = "B" -> "b" [] ch = "C" -> "c"
      [] ch = "D" -> "d" [] ch = "E" -> "e" [] ch = "F" -> "f" [] OTHER -> ch
SameUuid(a, b) ==
    Len(a) = Len(b) /\ \A p \in 1..Len(a) : LowerHex(a[p]) = LowerHex(b[p])

\* .eq('id', id): the rows of the table with that id
RowsWithId(id) == { i \in 1..Len(table) : SameUuid(table[i].id, id) }

\* PixelCardRepository.transformRowToPixelCard
transformRowToPixelCard(row) ==
    [id |-> row.id, userName |-> row.user_name,
     imagePath |-> row.image_path, imageUrl |-> row.image_url,
     createdAt |-> NewDate(row.created_at), updatedAt |-> NewDate(row.updated_at),
     fileSize |-> row.file_size, mimeType |-> row.mime_type]

\* error codes of a failed query; PGRST116 is "no rows" of .single()
NOT_FOUND_CODE == "PGRST116"
OtherErrorCodes == {"PGRST301", "57014"}

\* a listing also keeps its position (pc), its arguments and locals, and
\* the number of rows the table had when each of its two queries ran
NoRead ==
    [op |-> "none", id |-> <<>>, queries |-> 0, backend |-> "none",
     outcome |-> "none", value |-> <<>>, error |-> "",
     pc |-> "none", userName |-> <<>>, params |-> <<>>,
     page |-> 0, limit |-> 0, offset |-> 0, total |-> 0,
     countedAt |-> 0, fetchedAt |-> 0]

InvalidIdFormat == "Invalid pixel card ID format"
FetchFailed == "Failed to fetch pixel card"

\* what .single() answers: the row, no rows, another failure, or nothing at all
BackendAnswers(id) ==
    (IF RowsWithId(id) # {} THEN {"row"} ELSE {NOT_FOUND_CODE})
    \cup OtherErrorCodes \cup {"empty"}

\* getPixelCardById treating the not-found answer like any other error
getPixelCardByIdResult_NotFoundRaises(id, answer) ==
    LET base == [NoRead EXCEPT !.op = "getPixelCardById", !.id = id,
                               !.queries = 1, !.backend = answer]
    IN  IF answer \in OtherErrorCodes \cup {NOT_FOUND_CODE}
        THEN [base EXCEPT !.outcome = "raised", !.error = FetchFailed]
        ELSE IF answer = "empty"
        THEN [base EXCEPT !.outcome = "returned"]
        ELSE [base EXCEPT !.outcome = "returned",
                          !.value = <<transformRowToPixelCard(
                                        table[CHOOSE i \in RowsWithId(id) : TRUE])>>]

\* what getPixelCardById does with the answer
getPixelCardByIdResult(id, answer) ==
    LET base == [NoRead EXCEPT !.op = "getPixelCardById", !.id = id,
                               !.queries = 1, !.backend = answer]
    IN  IF answer = NOT_FOUND_CODE
        THEN [base EXCEPT !.outcome = "returned"]
        ELSE IF answer \in OtherErrorCodes
        THEN [base EXCEPT !.outcome = "raised", !.error = FetchFailed]
        ELSE IF answer = "empty"
        THEN [base EXCEPT !.outcome = "returned"]
        ELSE [base EXCEPT !.outcome = "returned",
                          !.value = <<transformRowToPixelCard(
                                        table[CHOOSE i \in RowsWithId(id) : TRUE])>>]

getPixelCardById(ids) ==
    /\ lastRead = NoRead
    /\ \E id \in ids :
        IF ~isValidUUID(id)
        THEN lastRead' = [NoRead EXCEPT !.op = "getPixelCardById", !.id = id,
                                        !.outcome = "raised", !.error = InvalidIdFormat]
        ELSE \E answer \in BackendAnswers(id) :
                lastRead' = getPixelCardByIdResult(id, answer)
    /\ UNCHANGED <<probe, calls, storage, table, ui, chains, camera>>

\* the caller has taken the result of the read
ReadTaken ==
    /\ lastRead # NoRead
    /\ lastRead.pc # "fetching"
    /\ lastRead' = NoRead
    /\ UNCHANGED <<probe, calls, storage, table, ui, chains, camera>>

\* another writer of the backend stores a row in pixel_cards: the table
\* belongs to the backend, whose rows the program reads as they are
ForeignImagePath == <<"legacy", "1.gif">>
ForeignInsert ==
    /\ table = <<>>
    /\ table' = <<[id |-> RowId(1), user_name |-> <<"A", "l">>,
                   image_path |-> ForeignImagePath,
                   image_url |-> PublicUrl(ForeignImagePath),
                   created_at |-> Timestamp(1), updated_at |-> Timestamp(1),
                   file_size |-> 3, mime_type |-> "image/gif"]>>
    /\ UNCHANGED <<probe, calls, storage, lastRead, ui, chains, camera>>

----------------------------------------------------------------------------
(* services/pixelCardRepository: pixelCardExists *)

\* what pixelCardExists does with the answer: the error it throws for a
\* failure other than not-found is caught by its own catch block, which
\* logs it and returns false
pixelCardExistsResult(id, answer) ==
    LET base == [NoRead EXCEPT !.op = "pixelCardExists", !.id = id,
                               !.queries = 1, !.backend = answer,
                               !.outcome = "returned"]
    IN  IF answer = NOT_FOUND_CODE
        THEN [base EXCEPT !.value = <<FALSE>>]
        ELSE IF answer \in OtherErrorCodes
        THEN [base EXCEPT !.value = <<FALSE>>]
        ELSE [base EXCEPT !.value = <<answer = "row">>]

pixelCardExists(ids) ==
    /\ lastRead = NoRead
    /\ \E id \in ids :
        IF ~isValidUUID(id)
        THEN lastRead' = [NoRead EXCEPT !.op = "pixelCardExists", !.id = id,
                                        !.outcome = "returned", !.value = <<FALSE>>]
        ELSE \E answer \in BackendAnswers(id) :
                lastRead' = pixelCardExistsResult(id, answer)
    /\ UNCHANGED <<probe, calls, storage, table, ui, chains, camera>>

----------------------------------------------------------------------------
(* services/pixelCardRepository: the listings *)

DEFAULT_PAGE_SIZE == 12
MAX_PAGE_SIZE == 50

\* an optional number: <<>> when absent, <<n>> when given
Absent == <<>>
Given(n) == <<n>>
PaginationParams(page, limit) == [page |-> page, limit |-> limit]

\* value || fallback: an absent value and 0 give the fallback
OrElse(value, fallback) ==
    IF value = Absent \/ value[1] = 0 THEN fallback ELSE value[1]

\* Math.ceil(a / b) for a >= 0, b >= 1
CeilDiv(a, b) == (a + b - 1) \div b

\* Math.min(Math.max(1, limit), MAX_PAGE_SIZE)
SafeLimit(limit) == Min(Max(1, limit), MAX_PAGE_SIZE)

\* .order('created_at', { ascending: false }); no two rows of the table
\* carry the same created_at
RECURSIVE OrderNewestFirst(_)
OrderNewestFirst(rows) ==
    IF rows = <<>> THEN <<>>
    ELSE LET j == CHOOSE j \in 1..Len(rows) :
                    \A k \in 1..Len(rows) :
                        rows[k].created_at.ms <= rows[j].created_at.ms
         IN  <<rows[j]>> \o OrderNewestFirst(SubSeq(rows, 1, j - 1)
                                             \o SubSeq(rows, j + 1, Len(rows)))

\* .eq('user_name', userName)
RowsOfUser(rows, userName) == SelectSeq(rows, LAMBDA row : row.user_name = userName)

\* .range(from, to): the rows at positions from..to, counted from 0
RangeOf(rows, from, to) == SubSeq(rows, from + 1, Min(to + 1, Len(rows)))

\* PixelCardRepository.transformRowToResponse
transformRowToResponse(row) ==
    [id |-> row.id, userName |-> row.user_name, imageUrl |-> row.image_url,
     createdAt |-> row.created_at, fileSize |-> row.file_size]

MapToResponse(rows) == [i \in 1..Len(rows) |-> transformRowToResponse(rows[i])]

UserNameRequired == "User name is required"
CountFailed == "Failed to get total count"
ListFetchFailed == "Failed to fetch pixel cards"
RecentFetchFailed == "Failed to fetch recent pixel cards"

\* the rows a listing looks at: all of them, or those of one user
Selected(read, rows) ==
    IF read.op = "getPixelCardsByUserName" THEN RowsOfUser(rows, read.userName)
    ELSE rows

GalleryResponse(pixelCards, page, limit, total, totalPages) ==
    [pixelCards |-> pixelCards,
     pagination |-> [page |-> page, limit |-> limit, total |-> total,
                     totalPages |-> totalPages]]

\* a listing that sends its second query even when the count is 0
AfterCount_AlwaysFetches(read, countAnswer) ==
    IF countAnswer \in OtherErrorCodes
    THEN [read EXCEPT !.queries = 1, !.backend = countAnswer, !.pc = "done",
                      !.outcome = "raised", !.error = CountFailed]
    ELSE [read EXCEPT !.queries = 1, !.backend = countAnswer, !.pc = "fetching",
                      !.total = Len(Selected(read, table)),
                      !.countedAt = Len(table)]

\* a listing from the answer of its count query on
AfterCount(read, countAnswer) ==
    IF countAnswer \in OtherErrorCodes
    THEN [read EXCEPT !.queries = 1, !.backend = countAnswer, !.pc = "done",
                      !.outcome = "raised", !.error = CountFailed]
    ELSE LET total == Len(Selected(read, table))
             counted == [read EXCEPT !.queries = 1, !.backend = countAnswer,
                                     !.total = total, !.countedAt = Len(table)]
         IN  IF total = 0
             THEN [counted EXCEPT
                     !.pc = "done", !.outcome = "returned",
                     !.value = <<GalleryResponse(<<>>, read.page, read.limit, 0, 0)>>]
             ELSE [counted EXCEPT !.pc = "fetching"]

\* a listing up to the answer of its count query
ListStart(op, userName, params) ==
    LET page == Max(1, OrElse(params.page, 1))
        limit == SafeLimit(OrElse(params.limit, DEFAULT_PAGE_SIZE))
    IN  [NoRead EXCEPT !.op = op, !.userName = userName, !.params = params,
                       !.page = page, !.limit = limit,
                       !.offset = (page - 1) * limit]

getAllPixelCards(paramSet) ==
    /\ lastRead = NoRead
    /\ \E params \in paramSet, countAnswer \in {"count"} \cup OtherErrorCodes :
        lastRead' = AfterCount(ListStart("getAllPixelCards", <<>>, params), countAnswer)
    /\ UNCHANGED <<probe, calls, storage, table, ui, chains, camera>>

getPixelCardsByUserName(names, paramSet) ==
    /\ lastRead = NoRead
    /\ \E userName \in names, params \in paramSet :
        IF Trim(userName) = <<>>
        THEN lastRead' = [NoRead EXCEPT !.op = "getPixelCardsByUserName",
                                        !.userName = userName, !.params = params,
                                        !.pc = "done", !.outcome = "raised",
                                        !.error = UserNameRequired]
        ELSE \E countAnswer \in {"count"} \cup OtherErrorCodes :
                lastRead' = AfterCount(
                    ListStart("getPixelCardsByUserName", userName, params), countAnswer)
    /\ UNCHANGED <<probe, calls, storage, table, ui, chains, camera>>

\* the second query of a listing is answered
ListFetch ==
    /\ lastRead.pc = "fetching"
    /\ \E answer \in {"rows"} \cup OtherErrorCodes :
        lastRead' =
            IF answer \in OtherErrorCodes
            THEN [lastRead EXCEPT !.queries = 2, !.backend = answer, !.pc = "done",
                                  !.outcome = "raised", !.error = ListFetchFailed]
            ELSE LET data == RangeOf(OrderNewestFirst(Selected(lastRead, table)),
                                     lastRead.offset,
                                     lastRead.offset + lastRead.limit - 1)
                 IN  [lastRead EXCEPT
                        !.queries = 2, !.backend = answer, !.pc = "done",
                        !.fetchedAt = Len(table), !.outcome = "returned",
                        !.value = <<GalleryResponse(
                                      MapToResponse(data), lastRead.page, lastRead.limit,
                                      lastRead.total,
                                      CeilDiv(lastRead.total, lastRead.limit))>>]
    /\ UNCHANGED <<probe, calls, storage, table, ui, chains, camera>>

\* the default value of the parameter of getRecentPixelCards
RECENT_DEFAULT == 6

getRecentPixelCards(limits) ==
    /\ lastRead = NoRead
    /\ \E limit \in limits, answer \in {"rows"} \cup OtherErrorCodes :
        LET safeLimit == SafeLimit(IF limit = Absent THEN RECENT_DEFAULT ELSE limit[1])
            base == [NoRead EXCEPT !.op = "getRecentPixelCards",
                                   !.params = PaginationParams(Absent, limit),
                                   !.limit = safeLimit, !.queries = 1,
                                   !.backend = answer, !.pc = "done",
                                   !.fetchedAt = Len(table)]
        IN  lastRead' =
                IF answer \in OtherErrorCodes
                THEN [base EXCEPT !.outcome = "raised", !.error = RecentFetchFailed]
                ELSE [base EXCEPT
                        !.outcome = "returned",
                        !.value = <<MapToResponse(
                                      RangeOf(OrderNewestFirst(table), 0, safeLimit - 1))>>]
    /\ UNCHANGED <<probe, calls, storage, table, ui, chains, camera>>

----------------------------------------------------------------------------
(* lib/type-validation: rows, entities and inserts *)

RowFields ==
    {"id", "user_name", "image_path", "image_url", "created_at", "updated_at",
     "file_size", "mime_type"}

\* a value given where a row is expected: the fields of `absent` are missing
\* (typeof gives 'undefined'); NullRow is a value that is not an object
RowValue(row, absent) == [isObject |-> TRUE, row |-> row, absent |-> absent]
NullRow == [isObject |-> FALSE, row |-> <<>>, absent |-> RowFields]

validatePixelCardRow(value) ==
    /\ value.isObject
    /\ "id" \notin value.absent
    /\ "user_name" \notin value.absent
    /\ "image_path" \notin value.absent
    /\ "image_url" \notin value.absent
    /\ "created_at" \notin value.absent
    /\ "updated_at" \notin value.absent
    /\ "file_size" \notin value.absent
    /\ "mime_type" \notin value.absent
    /\ (value.row.mime_type = "image/png" \/ value.row.mime_type = "image/jpeg")

Thrown(message) == [threw |-> TRUE, error |-> message, value |-> <<>>]
Returned(value) == [threw |-> FALSE, error |-> "", value |-> <<value>>]

InvalidRowData == "Invalid pixel card row data"
InvalidCreateRequest == "Invalid create pixel card request"

\* transformRowToPixelCard of lib/type-validation, exported by lib/typeUtils
\* as dbRowToPixelCard
dbRowToPixelCard(value) ==
    IF ~validatePixelCardRow(value) THEN Thrown(InvalidRowData)
    ELSE Returned([id |-> value.row.id, userName |-> value.row.user_name,
                   imagePath |-> value.row.image_path,
                   imageUrl |-> value.row.image_url,
                   createdAt |-> NewDate(value.row.created_at),
                   updatedAt |-> NewDate(value.row.updated_at),
                   fileSize |-> value.row.file_size,
                   mimeType |-> value.row.mime_type])

validateCreateRequest(request) ==
    /\ request.isObject
    /\ request.userName # Undefined
    /\ request.imageData.kind = "string"

\* createInsertFromRequest storing the name as given
createInsertFromRequest_NameAsGiven(request, imagePath, imageUrl, fileSize, mimeType) ==
    IF ~validateCreateRequest(request) THEN Thrown(InvalidCreateRequest)
    ELSE Returned([user_name |-> request.userName, image_path |-> imagePath,
                   image_url |-> imageUrl, file_size |-> fileSize,
                   mime_type |-> mimeType])

createInsertFromRequest(request, imagePath, imageUrl, fileSize, mimeType) ==
    IF ~validateCreateRequest(request) THEN Thrown(InvalidCreateRequest)
    ELSE Returned([user_name |-> Trim(request.userName), image_path |-> imagePath,
                   image_url |-> imageUrl, file_size |-> fileSize,
                   mime_type |-> mimeType])

CallDbRowToPixelCard == Apply("dbRowToPixelCard", dbRowToPixelCard(probe.arg))

\* the entity made from a row goes back towards the table: the only
\* row-shaped value the program builds is the insert of createInsertFromRequest
CallCreateInsertFromRequest ==
    /\ probe.fn = "dbRowToPixelCard"
    /\ probe.done
    /\ ~probe.out.threw
    /\ \E imageData \in {ImageString(PngHead, 4, 0, TRUE), UndefinedImage} :
        LET entity == probe.out.value[1]
        IN  probe' = [fn |-> "createInsertFromRequest",
                      arg |-> [row |-> probe.arg, entity |-> entity,
                               imageData |-> imageData],
                      done |-> TRUE,
                      out |-> createInsertFromRequest(
                                  Request(entity.userName, imageData),
                                  entity.imagePath, entity.imageUrl,
                                  entity.fileSize, entity.mimeType)]
    /\ UNCHANGED <<calls, storage, table, lastRead, ui, chains, camera>>

----------------------------------------------------------------------------
(* services/geminiService: pixelateImageWithBackgroundRemoval *)

\* the text after the first comma of a string, or undefined
Payload(n, k, clean) == [defined |-> TRUE, n |-> n, k |-> k, clean |-> clean]
UndefinedPayload == [defined |-> FALSE, n |-> 0, k |-> 0, clean |-> TRUE]

\* base64Image.split(',')[1]
SecondPieceOf(img) ==
    IF HasComma(img) THEN Payload(img.n, img.k, img.clean) ELSE UndefinedPayload

\* the parts of a response and what generateContent gives: a rejection, or
\* an answer whose first candidate has the given parts
TextPart == [type |-> "text", data |-> UndefinedPayload]
InlineDataPart(payload) == [type |-> "inlineData", data |-> payload]
Rejected == [kind |-> "rejected", parts |-> <<>>]
Answered(parts) == [kind |-> "answered", parts |-> parts]

PixelateFailed == "Failed to pixelate image."

\* one execution: position, requests sent so far, the image part sent, the
\* response and the outcome
NotSent ==
    [pc |-> "called", requests |-> 0,
     sent |-> [mimeType |-> "", data |-> UndefinedPayload],
     response |-> Answered(<<>>), outcome |-> "none",
     value |-> <<>>, error |-> ""]
Pixelating(base64Image) ==
    [fn |-> "pixelateImageWithBackgroundRemoval", arg |-> base64Image,
     done |-> FALSE, out |-> NotSent]

\* `data:image/png;base64,${firstPart.inlineData.data}`
PngDataUri(payload) == ImageString(PngHead, payload.n, payload.k, payload.clean)

\* the function sending its request again after a rejection
AfterResponse_Retries(call, response) ==
    IF response.kind = "rejected"
    THEN [call EXCEPT !.requests = @ + 1, !.response = response]
    ELSE IF response.parts # <<>> /\ response.parts[1].type = "inlineData"
    THEN [call EXCEPT !.pc = "done", !.response = response, !.outcome = "returned",
                      !.value = <<PngDataUri(response.parts[1].data)>>]
    ELSE [call EXCEPT !.pc = "done", !.response = response, !.outcome = "raised",
                      !.error = PixelateFailed]

\* what the function does with the outcome of generateContent: the error of
\* a missing image is thrown inside the try block and replaced by its catch
AfterResponse(call, response) ==
    IF response.kind = "rejected"
    THEN [call EXCEPT !.pc = "done", !.response = response, !.outcome = "raised",
                      !.error = PixelateFailed]
    ELSE IF response.parts # <<>> /\ response.parts[1].type = "inlineData"
    THEN [call EXCEPT !.pc = "done", !.response = response, !.outcome = "returned",
                      !.value = <<PngDataUri(response.parts[1].data)>>]
    ELSE [call EXCEPT !.pc = "done", !.response = response, !.outcome = "raised",
                      !.error = PixelateFailed]

\* up to the await: the image part is built and the request is sent
SendToModel ==
    /\ probe.fn = "pixelateImageWithBackgroundRemoval"
    /\ probe.out.pc = "called"
    /\ probe' = [probe EXCEPT
                    !.out = [probe.out EXCEPT
                                !.pc = "awaiting", !.requests = @ + 1,
                                !.sent = [mimeType |-> "image/png",
                                          data |-> SecondPieceOf(probe.arg)]]]
    /\ UNCHANGED <<calls, storage, table, lastRead, ui, chains, camera>>

\* generateContent settles
ModelAnswers(responses) ==
    /\ probe.fn = "pixelateImageWithBackgroundRemoval"
    /\ probe.out.pc = "awaiting"
    /\ \E response \in responses :
        LET after == AfterResponse(probe.out, response)
        IN  probe' = [probe EXCEPT !.out = after, !.done = (after.pc = "done")]
    /\ UNCHANGED <<calls, storage, table, lastRead, ui, chains, camera>>

----------------------------------------------------------------------------
(* components/PixelIDCardGenerator: the steps of the page and the          *)
(* handlePhotoCapture executions                                            *)

Null == <<>>
NonNull(x) == <<x>>

\* useState initial values
InitialUI ==
    [step |-> "input", userName |-> <<>>, processedImage |-> Null,
     isLoading |-> FALSE, error |-> Null, saveSuccess |-> FALSE, saveError |-> Null]

GeneratedInvalid == "Generated image failed validation. Please try again."
InvalidImage(errors) == <<"Invalid image: ", errors>>

\* what renderStep puts on the page
NameInputShown == ui.step = "input"
CameraViewShown == ui.step = "capture" /\ ~ui.isLoading
ErrorBoxShown == ui.step = "capture" /\ ui.error # Null
FramedPhotoShown == ui.step = "display" /\ ui.processedImage # Null

\* one handlePhotoCapture execution: where it is, the image it was given,
\* the userName of its closure, the stages it went through, the stage that
\* failed, the result of the model, the name it gave to savePixelCard and the
\* savePixelCard execution it awaits
Chain(image, userName) ==
    [pc |-> "pixelating", image |-> image, userName |-> userName,
     stages |-> <<"validate">>, failed |-> "", ai |-> NotSent,
     result |-> Null, call |-> 0, saved |-> "none"]

InFlight(k) == chains[k].pc \in {"pixelating", "saving"}
ChainIds == 1..Len(chains)

\* the identifier crypto.randomUUID gives to the save of the k-th execution
ChainUuid(k) == IF k = 1 THEN "uuid-1" ELSE ToString(k)

\* catch (err) { setError(...); setStep('capture') } finally { setIsLoading(false) }
Caught(state, message) ==
    [state EXCEPT !.error = NonNull(message), !.step = "capture", !.isLoading = FALSE]

handleNameSubmit(names) ==
    /\ NameInputShown
    /\ \E name \in names :
        ui' = IF Trim(name) # <<>>
              THEN [ui EXCEPT !.userName = Trim(name), !.step = "capture", !.error = Null]
              ELSE ui
    /\ UNCHANGED <<probe, calls, storage, table, lastRead, chains, camera>>

\* handlePhotoCapture up to its first await: the four resets, the validation
\* of the captured image and the request to the model
handlePhotoCapture(images) ==
    /\ CameraViewShown
    /\ \E imageDataUrl \in images :
        LET started == [ui EXCEPT !.isLoading = TRUE, !.error = Null,
                                  !.saveSuccess = FALSE, !.saveError = Null]
            validation == validateImageData(imageDataUrl)
            chain == Chain(imageDataUrl, ui.userName)
        IN  IF ~validation.isValid
            THEN /\ ui' = Caught(started, InvalidImage(validation.errors))
                 /\ chains' = Append(chains,
                        [chain EXCEPT !.pc = "done", !.failed = "validate"])
            ELSE /\ ui' = started
                 /\ chains' = Append(chains,
                        [chain EXCEPT
                            !.stages = Append(@, "pixelate"),
                            !.ai = [NotSent EXCEPT
                                       !.pc = "awaiting", !.requests = 1,
                                       !.sent = [mimeType |-> "image/png",
                                                 data |-> SecondPieceOf(imageDataUrl)]]])
    /\ UNCHANGED <<probe, calls, storage, table, lastRead, camera>>

\* the execution going on to savePixelCard although the result of the model
\* failed validation
AfterPixelate_SavesUnchecked(k, state, answer) ==
    IF answer.outcome = "raised"
    THEN [ui |-> Caught(state, answer.error), failed |-> "pixelate", save |-> FALSE]
    ELSE [ui |-> [state EXCEPT !.processedImage = NonNull(answer.value[1]),
                               !.step = "display"],
          failed |-> "", save |-> TRUE]

\* handlePhotoCapture from the result of the model to the call of
\* savePixelCard: given the settled request, the state to set, the stage that
\* failed and whether savePixelCard is called
AfterPixelate(k, state, answer) ==
    IF answer.outcome = "raised"
    THEN [ui |-> Caught(state, answer.error), failed |-> "pixelate", save |-> FALSE]
    ELSE IF ~validateImageData(answer.value[1]).isValid
    THEN [ui |-> Caught(state, GeneratedInvalid), failed |-> "validate result",
          save |-> FALSE]
    ELSE [ui |-> [state EXCEPT !.processedImage = NonNull(answer.value[1]),
                               !.step = "display"],
          failed |-> "", save |-> TRUE]

\* the request to the model settles and the execution runs to its next await
\* (savePixelCard, run up to its own first await) or to its end
ModelSettles(k, responses) ==
    /\ k \in ChainIds
    /\ chains[k].pc = "pixelating"
    /\ \E response \in responses :
        LET answer == AfterResponse(chains[k].ai, response)
            after == AfterPixelate(k, ui, answer)
            checked == [chains[k] EXCEPT
                            !.ai = answer,
                            !.stages = IF answer.outcome = "returned"
                                       THEN Append(@, "validate result") ELSE @,
                            !.result = IF answer.outcome = "returned"
                                       THEN NonNull(answer.value[1]) ELSE Null]
        IN  /\ ui' = after.ui
            /\ IF after.save
               THEN \E c \in Calls :
                        /\ calls[c].pc = "idle"
                        /\ \A d \in Calls : d < c => calls[d].pc # "idle"
                        /\ calls' = [calls EXCEPT ![c] =
                                BeginSave(calls[c],
                                          Request(chains[k].userName, answer.value[1]),
                                          ChainUuid(k))]
                        /\ chains' = [chains EXCEPT ![k] =
                                [checked EXCEPT !.pc = "saving", !.call = c,
                                                !.stages = Append(@, "save")]]
               ELSE /\ chains' = [chains EXCEPT ![k] =
                            [checked EXCEPT !.pc = "done", !.failed = after.failed]]
                    /\ UNCHANGED calls
    /\ UNCHANGED <<probe, storage, table, lastRead, camera>>

\* the end of the execution without the finally block
AfterSave_LoadingKept(k, state, call) ==
    IF call.pc = "done"
    THEN [state EXCEPT !.saveSuccess = TRUE]
    ELSE [state EXCEPT !.saveError = NonNull(call.error)]

\* the inner try/catch around savePixelCard and the finally block
AfterSave(k, state, call) ==
    IF call.pc = "done"
    THEN [state EXCEPT !.saveSuccess = TRUE, !.isLoading = FALSE]
    ELSE [state EXCEPT !.saveError = NonNull(call.error), !.isLoading = FALSE]

\* savePixelCard has settled and the execution runs to its end
SaveSettles(k) ==
    /\ k \in ChainIds
    /\ chains[k].pc = "saving"
    /\ calls[chains[k].call].pc \in {"done", "failed"}
    /\ ui' = AfterSave(k, ui, calls[chains[k].call])
    /\ chains' = [chains EXCEPT ![k] =
            [chains[k] EXCEPT
                !.pc = "done",
                !.saved = IF calls[chains[k].call].pc = "done"
                          THEN "succeeded" ELSE "failed"]]
    /\ calls' = [calls EXCEPT ![chains[k].call] = IdleCall]
    /\ UNCHANGED <<probe, storage, table, lastRead, camera>>

handleRetake ==
    /\ FramedPhotoShown
    /\ ui' = [ui EXCEPT !.processedImage = Null, !.error = Null,
                        !.saveSuccess = FALSE, !.saveError = Null,
                        !.isLoading = FALSE, !.step = "capture"]
    /\ UNCHANGED <<probe, calls, storage, table, lastRead, chains, camera>>

handleReset ==
    /\ FramedPhotoShown
    /\ ui' = [ui EXCEPT !.userName = <<>>, !.processedImage = Null, !.error = Null,
                        !.saveSuccess = FALSE, !.saveError = Null,
                        !.isLoading = FALSE, !.step = "input"]
    /\ UNCHANGED <<probe, calls, storage, table, lastRead, chains, camera>>

\* the Dismiss button of the error box: setError(null)
Dismiss ==
    /\ ErrorBoxShown
    /\ ui' = [ui EXCEPT !.error = Null]
    /\ UNCHANGED <<probe, calls, storage, table, lastRead, chains, camera>>

----------------------------------------------------------------------------
(* components/CameraView: the camera stream and the capture *)

\* the component before it is mounted: its useState values, the <video>
\* element it renders (Null when the error view is shown; srcObject 0 is no
\* stream), the getUserMedia requests not yet settled, the streams obtained
\* and those whose tracks are not stopped, and the images given to onCapture
NoCamera ==
    [phase |-> "none", error |-> Null, isCapturing |-> FALSE, cameraReady |-> FALSE,
     permissionDenied |-> FALSE, video |-> Null, pending |-> 0, obtained |-> 0,
     live |-> {}, passed |-> {}]

NoVideo == [srcObject |-> 0, loaded |-> FALSE]
NotSupported == "Camera access is not supported in this browser"
NotReady == "Camera is not ready. Please wait a moment and try again."
NoContext == "Could not get canvas context"
NoDimensions == "Invalid video dimensions. Please ensure camera is working properly."
CaptureInvalid(errors) == <<"Image validation failed: ", errors>>
CaptureTooLarge == "Image is too large"

\* startCamera up to its await: the three resets (the page shows the
\* <video> element again) and the request, or the error of a browser
\* without getUserMedia
startCamera(state, supported) ==
    LET reset == [state EXCEPT !.error = Null, !.permissionDenied = FALSE,
                               !.cameraReady = FALSE,
                               !.video = IF state.video = Null
                                         THEN NonNull(NoVideo) ELSE @]
    IN  IF ~supported
        THEN [reset EXCEPT !.error = NonNull(NotSupported), !.video = Null]
        ELSE [reset EXCEPT !.pending = @ + 1]

\* the first render and the effect that calls startCamera
Mount ==
    /\ camera.phase = "none"
    /\ \E supported \in BOOLEAN :
        camera' = startCamera([camera EXCEPT !.phase = "mounted",
                                             !.video = NonNull(NoVideo)], supported)
    /\ UNCHANGED <<probe, calls, storage, table, lastRead, ui, chains>>

\* the RETRY / TRY AGAIN button of the error view
Retry ==
    /\ camera.phase = "mounted"
    /\ camera.error # Null
    /\ camera.obtained + camera.pending < MaxStreams
    /\ \E supported \in BOOLEAN : camera' = startCamera(camera, supported)
    /\ UNCHANGED <<probe, calls, storage, table, lastRead, ui, chains>>

\* startCamera after getUserMedia gave a stream: the stream goes to the
\* <video> element if videoRef.current is set
StreamObtained(state) ==
    LET id == state.obtained + 1
    IN  IF state.video # Null
        THEN [state EXCEPT !.pending = @ - 1, !.obtained = id,
                           !.live = @ \cup {id},
                           !.video = NonNull([srcObject |-> id, loaded |-> FALSE])]
        ELSE [state EXCEPT !.pending = @ - 1, !.obtained = id,
                           !.live = @ \cup {id}]

GetUserMediaResolves ==
    /\ camera.pending > 0
    /\ camera' = StreamObtained(camera)
    /\ UNCHANGED <<probe, calls, storage, table, lastRead, ui, chains>>

\* getUserMedia rejects: the catch block (state set on an unmounted
\* component is dropped)
GetUserMediaRejects ==
    /\ camera.pending > 0
    /\ \E name \in {"NotAllowedError", "NotFoundError"} :
        camera' = IF camera.phase = "mounted"
                  THEN [camera EXCEPT !.pending = @ - 1,
                                      !.permissionDenied = (name = "NotAllowedError"),
                                      !.error = NonNull(name), !.video = Null]
                  ELSE [camera EXCEPT !.pending = @ - 1]
    /\ UNCHANGED <<probe, calls, storage, table, lastRead, ui, chains>>

\* video.onloadedmetadata
LoadedMetadata ==
    /\ camera.phase = "mounted"
    /\ camera.video # Null
    /\ camera.video[1].srcObject # 0
    /\ ~camera.video[1].loaded
    /\ camera' = [camera EXCEPT !.cameraReady = TRUE,
                                !.video = NonNull([camera.video[1] EXCEPT !.loaded = TRUE])]
    /\ UNCHANGED <<probe, calls, storage, table, lastRead, ui, chains>>

\* capturePhoto, which has no await: the Capture button is enabled when
\* cameraReady and not isCapturing; the frame drawn is one of `frames`
\* (Null: no 2d context; an image: what canvas.toDataURL gives)
capturePhoto(frames) ==
    /\ camera.phase = "mounted"
    /\ camera.error = Null
    /\ camera.cameraReady /\ ~camera.isCapturing
    /\ \E frame \in frames, hasDimensions \in BOOLEAN :
        LET failed(message) ==
                [camera EXCEPT !.error = NonNull(message), !.isCapturing = FALSE,
                               !.video = Null]
        IN  camera' =
                IF camera.video = Null \/ ~camera.cameraReady
                THEN [camera EXCEPT !.error = NonNull(NotReady), !.video = Null]
                ELSE IF frame = Null THEN failed(NoContext)
                ELSE IF ~hasDimensions THEN failed(NoDimensions)
                ELSE LET dataUrl == frame[1]
                         validation == validateImageData(dataUrl)
                     IN  IF ~validation.isValid
                         THEN failed(CaptureInvalid(validation.errors))
                         ELSE IF Base64Length(dataUrl) * 3 > 4 * IMAGE_MAX_SIZE_BYTES
                         THEN failed(CaptureTooLarge)
                         ELSE [camera EXCEPT !.isCapturing = FALSE,
                                             !.passed = @ \cup {dataUrl}]
    /\ UNCHANGED <<probe, calls, storage, table, lastRead, ui, chains>>

\* the component is removed and the cleanup of the effect runs: it stops the
\* tracks of the stream of the element videoRef.current points to; whether
\* the ref still points to the element when the cleanup runs depends on the
\* version of the library
Unmount ==
    /\ camera.phase = "mounted"
    /\ \E refSet \in BOOLEAN :
        camera' = [camera EXCEPT
                      !.phase = "unmounted",
                      !.video = Null,
                      !.live = IF refSet /\ camera.video # Null
                                         /\ camera.video[1].srcObject # 0
                               THEN @ \ {camera.video[1].srcObject}
                               ELSE @]
    /\ UNCHANGED <<probe, calls, storage, table, lastRead, ui, chains>>

----------------------------------------------------------------------------
(* Inputs of the operations *)

\* a 52-character name whose trimmed form has 50 characters
PaddedName == <<" ">> \o Repeat("a", USER_NAME_MAX_LENGTH) \o <<" ">>

\* 3 bytes of PNG, 4 bytes of JPEG, a GIF, and a payload atob refuses ("ab=")
SmallPng == ImageString(PngHead, 4, 0, TRUE)
SmallJpeg == ImageString(JpegHead, 6, 2, TRUE)
SmallGif == ImageString(<<"data:", "image/gif", ";base64,">>, 4, 0, TRUE)
Undecodable == ImageString(PngHead, 2, 1, TRUE)

NarrowRequests ==
    { Request(<<"A", "l">>, SmallPng), Request(PaddedName, SmallJpeg),
      Request(<<"A", "!">>, SmallGif), Request(<<"A", "l">>, Undecodable) }

OneRequest == Request(<<"A", "l">>, SmallPng)

\* identifiers asked for: row identifiers as they are, in upper case and in
\* other versions, and the same with one character replaced, dropped or added
UpperRowId == [p \in 1..36 |-> IF p = 20 THEN "B" ELSE IF p = 36 THEN "F" ELSE RowId(1)[p]]
BaseIds == {RowId(1), RowId(2), UpperRowId}
ReplacementChars == {"0", "6", "9", "c", "F", "g", "-", "B", " "}
IdInputs ==
    BaseIds
    \cup { [p \in 1..36 |-> IF p = t[2] THEN t[3] ELSE t[1][p]] :
             t \in BaseIds \X (1..36) \X ReplacementChars }
    \cup { SubSeq(id, 1, 35) : id \in BaseIds }
    \cup { Append(id, "0") : id \in BaseIds }
    \cup { <<>>, <<"1">> }

SmallIds == {RowId(1), <<"1">>}

\* identifiers whose existence is asked
ExistsIds == BaseIds \cup {<<>>, <<"1">>, SubSeq(RowId(1), 1, 35)}

\* tables left by earlier saves: row i was stored by the i-th save
SeedName(i) == IF i % 2 = 1 THEN <<"A", "l">> ELSE <<"B", "o">>
\* the first blob carries an identifier randomUUID may give again
SeedUuid(i) == IF i = 1 THEN "uuid-1" ELSE ToString(i)
SeedPath(i) == generateImagePath(generateUniqueFilename(SeedUuid(i), "image/png"))
SeedRow(i) ==
    [id |-> RowId(i), user_name |-> SeedName(i),
     image_path |-> SeedPath(i), image_url |-> PublicUrl(SeedPath(i)),
     created_at |-> Timestamp(i), updated_at |-> Timestamp(i),
     file_size |-> 3, mime_type |-> "image/png"]
SeedTable(n) == [i \in 1..n |-> SeedRow(i)]
SeedStorage(n) ==
    { [path |-> SeedPath(i), size |-> 3, contentType |-> "image/png"] : i \in 1..n }
SeedSizes == {0, 2, MAX_PAGE_SIZE + 1}

\* arguments of the listings
ListPages == {Absent, Given(0), Given(1), Given(2)}
ListLimits ==
    {Absent, Given(-1), Given(1), Given(DEFAULT_PAGE_SIZE),
     Given(MAX_PAGE_SIZE), Given(MAX_PAGE_SIZE + 1), Given(100)}
ListParams == { PaginationParams(t[1], t[2]) : t \in ListPages \X ListLimits }
ListNames == {<<"A", "l">>, <<"B", "o">>, <<"a", "l">>, <<" ">>}
ListRequests ==
    { Request(<<"A", "l">>, ImageString(PngHead, 8, 0, TRUE)),
      Request(<<"B", "o">>, SmallJpeg) }

\* page and limit arguments: absent, NaN, a string, and numbers in halves
\* around 0, 1 and the maximum of the limit
NumberInputs ==
    { UndefinedNumber, NaN, NumericString }
    \cup { NumberOf(h) : h \in (-3..5) \cup {23, 24, 40, 41}
                              \cup ((2 * PAGINATION_MAX_LIMIT - 2)..(2 * PAGINATION_MAX_LIMIT + 3)) }
PaginationInputs == { [page |-> t[1], limit |-> t[2]] : t \in NumberInputs \X NumberInputs }

\* contents of at most MaxContent characters, and "aGVsbG8=" ('hello')
RECURSIVE Texts(_, _)
Texts(chars, n) ==
    IF n = 0 THEN {<<>>}
    ELSE LET shorter == Texts(chars, n - 1)
         IN  shorter \cup { Append(t[1], t[2]) : t \in shorter \X chars }
Hello == <<"a", "G", "V", "s", "b", "G", "8", "=">>
ContentInputs == Texts({"a", "/", "=", ","}, MaxContent) \cup {Hello}
SizeInputs == { [prefixed |-> t[1], content |-> t[2]] : t \in BOOLEAN \X ContentInputs }

\* rows given to dbRowToPixelCard: names with and without blanks around
\* them, timestamps with and without digits below the millisecond, MIME
\* types inside and outside the allowed set, one field missing or none
RowTimes == {[ms |-> 1, us |-> 0], [ms |-> 2, us |-> 250]}
RowNames == {<<"A", "l">>, <<" ", "A", "l", " ">>}
RowMimes == {"image/png", "image/jpeg", "image/gif"}
RowInputs ==
    { RowValue([id |-> RowId(1), user_name |-> t[1],
                image_path |-> SeedPath(1), image_url |-> PublicUrl(SeedPath(1)),
                created_at |-> t[2], updated_at |-> t[3],
                file_size |-> 3, mime_type |-> t[4]], t[5]) :
        t \in RowNames \X RowTimes \X RowTimes \X RowMimes
                \X ({{}} \cup { {f} : f \in RowFields }) }
    \cup {NullRow}

\* photos given to pixelateImageWithBackgroundRemoval, and the payloads
\* and responses of the model
PhotoInputs ==
    { ImageString(t[1], t[2], t[3], TRUE) :
        t \in {PngHead, JpegHead, <<>>} \X (0..(Window + 1)) \X (0..MaxPad) }
ResponsePayloads == {Payload(4, 0, TRUE), Payload(6, 2, TRUE)}
ModelResponses ==
    { Rejected, Answered(<<>>), Answered(<<TextPart>>) }
    \cup { Answered(<<InlineDataPart(p)>>) : p \in ResponsePayloads }
    \cup { Answered(<<InlineDataPart(p), TextPart>>) : p \in ResponsePayloads }
    \cup { Answered(<<TextPart, InlineDataPart(p)>>) : p \in ResponsePayloads }

\* what NameInput submits, what CameraView captures, what the model answers
UINames == {<<"A", "l">>}
UIPhotos == {SmallPng}
UIResponses ==
    { Rejected,
      Answered(<<InlineDataPart(Payload(4, 0, TRUE))>>),
      Answered(<<InlineDataPart(Payload(0, 0, TRUE))>>) }

\* what the canvas gives: no 2d context, a small PNG, a PNG of 11 MiB
CameraFrames == {Null, NonNull(SmallPng), NonNull(ElevenMiB)}

PureInputs ==
    { Pending("validateUserName", name) : name \in NameInputs }
    \cup { Pending("validateImageData", img) : img \in ImageInputs }
    \cup { Pending("validateCreatePixelCardRequest", req) : req \in RequestInputs }
    \cup { Pending("validatePaginationParams", arg) : arg \in PaginationInputs }
    \cup { Pending("validateAndNormalizePagination", arg) :
              arg \in { a \in PaginationInputs :
                          a.page.kind # "string" /\ a.limit.kind # "string" } }
    \cup { Pending("calculateBase64FileSize", arg) : arg \in SizeInputs }
    \cup { Pending("dbRowToPixelCard", row) : row \in RowInputs }

----------------------------------------------------------------------------
(* Specifications *)

Init ==
    /\ probe = Idle
    /\ calls = [c \in Calls |-> IdleCall]
    /\ storage = {}
    /\ table = <<>>
    /\ lastRead = NoRead
    /\ ui = InitialUI
    /\ chains = <<>>
    /\ camera = NoCamera

\* overlapping savePixelCard executions and reads by identifier
Next ==
    \/ \E c \in Calls : StartSave(c, NarrowRequests)
    \/ \E c \in Calls : UploadFails(c)
    \/ \E c \in Calls : UploadSucceeds(c)
    \/ \E c \in Calls : InsertFails(c)
    \/ \E c \in Calls : InsertSucceeds(c)
    \/ getPixelCardById(SmallIds)
    \/ ReadTaken

Spec == Init /\ [][Next]_vars

\* one savePixelCard execution over all request inputs
NextWide ==
    \/ StartSave(1, RequestInputs)
    \/ UploadFails(1)
    \/ UploadSucceeds(1)
    \/ InsertFails(1)
    \/ InsertSucceeds(1)

SpecWide == Init /\ [][NextWide]_vars

\* reads by identifier over all identifier inputs, beside one save
NextRepo ==
    \/ StartSave(1, {OneRequest})
    \/ UploadFails(1)
    \/ UploadSucceeds(1)
    \/ InsertFails(1)
    \/ InsertSucceeds(1)
    \/ ForeignInsert
    \/ getPixelCardById(IdInputs)
    \/ pixelCardExists(ExistsIds)
    \/ ReadTaken

SpecRepo == Init /\ [][NextRepo]_vars

\* the listings over tables of several sizes, beside one save
InitList ==
    /\ probe = Idle
    /\ calls = [c \in Calls |-> IdleCall]
    /\ \E n \in SeedSizes : storage = SeedStorage(n) /\ table = SeedTable(n)
    /\ lastRead = NoRead
    /\ ui = InitialUI
    /\ chains = <<>>
    /\ camera = NoCamera

NextList ==
    \/ StartSave(1, ListRequests)
    \/ UploadFails(1)
    \/ UploadSucceeds(1)
    \/ InsertFails(1)
    \/ InsertSucceeds(1)
    \/ getAllPixelCards(ListParams)
    \/ getPixelCardsByUserName(ListNames, ListParams)
    \/ ListFetch
    \/ getRecentPixelCards(ListLimits)
    \/ getPixelCardById(SmallIds)
    \/ pixelCardExists(SmallIds)
    \/ ReadTaken

SpecList == InitList /\ [][NextList]_vars

\* pixelateImageWithBackgroundRemoval over photos and responses
InitGemini ==
    /\ probe \in { Pixelating(photo) : photo \in PhotoInputs }
    /\ calls = [c \in Calls |-> IdleCall]
    /\ storage = {}
    /\ table = <<>>
    /\ lastRead = NoRead
    /\ ui = InitialUI
    /\ chains = <<>>
    /\ camera = NoCamera

NextGemini ==
    \/ SendToModel
    \/ ModelAnswers(ModelResponses)

SpecGemini == InitGemini /\ [][NextGemini]_vars

\* the page: names typed, photos taken, answers of the model, the backend
\* of the saves, and the buttons, for up to `most` executions
NextPage(most) ==
    \/ handleNameSubmit(UINames)
    \/ Len(chains) < most /\ handlePhotoCapture(UIPhotos)
    \/ \E k \in 1..most : ModelSettles(k, UIResponses)
    \/ \E c \in Calls : UploadFails(c)
    \/ \E c \in Calls : UploadSucceeds(c)
    \/ \E c \in Calls : InsertFails(c)
    \/ \E c \in Calls : InsertSucceeds(c)
    \/ \E k \in 1..most : SaveSettles(k)
    \/ handleRetake
    \/ handleReset
    \/ Dismiss

NextUI == NextPage(MaxChains)

SpecUI == Init /\ [][NextUI]_vars

\* the page with one execution more
NextUIDeep == NextPage(MaxChains + 1)

SpecUIDeep == Init /\ [][NextUIDeep]_vars

\* the page when every request that was sent is answered and every
\* continuation that can run does run; the user is free to stop
SpecUIFair ==
    /\ SpecUI
    /\ \A k \in 1..MaxChains : WF_vars(ModelSettles(k, UIResponses))
    /\ \A c \in Calls : WF_vars(UploadFails(c) \/ UploadSucceeds(c))
    /\ \A c \in Calls : WF_vars(InsertFails(c) \/ InsertSucceeds(c))
    /\ \A k \in 1..MaxChains : WF_vars(SaveSettles(k))

\* one CameraView from its mount to its unmount
NextCamera ==
    \/ Mount
    \/ Retry
    \/ GetUserMediaResolves
    \/ GetUserMediaRejects
    \/ LoadedMetadata
    \/ capturePhoto(CameraFrames)
    \/ Unmount

SpecCamera == Init /\ [][NextCamera]_vars

\* the camera when every getUserMedia request settles and the metadata of
\* an attached stream loads
SpecCameraFair ==
    /\ SpecCamera
    /\ WF_vars(GetUserMediaResolves \/ GetUserMediaRejects)
    /\ WF_vars(LoadedMetadata)

\* the validators applied to their inputs
InitPure ==
    /\ probe \in PureInputs
    /\ calls = [c \in Calls |-> IdleCall]
    /\ storage = {}
    /\ table = <<>>
    /\ lastRead = NoRead
    /\ ui = InitialUI
    /\ chains = <<>>
    /\ camera = NoCamera

NextPure ==
    \/ CallValidateUserName
    \/ CallValidateImageData
    \/ CallValidateCreatePixelCardRequest
    \/ CallValidatePaginationParams
    \/ CallValidateAndNormalizePagination
    \/ CallCalculateBase64FileSize
    \/ CallDbRowToPixelCard
    \/ CallCreateInsertFromRequest

SpecPure == InitPure /\ [][NextPure]_vars

----------------------------------------------------------------------------
(* Properties: the validators (checked under SpecPure) *)

TenMiB == 10 * 1024 * 1024

\* the part of a string between its first and its last non-blank character
NonBlank(s) == { i \in 1..Len(s) : s[i] \notin Whitespace }
Core(s) ==
    IF NonBlank(s) = {} THEN <<>>
    ELSE SubSeq(s, CHOOSE i \in NonBlank(s) : \A j \in NonBlank(s) : i <= j,
                   CHOOSE i \in NonBlank(s) : \A j \in NonBlank(s) : i >= j)

\* letters, digits, spaces, hyphen, underscore, apostrophe, period
StatedNameChar(c) ==
    c \in LowerCase \cup UpperCase \cup Digits \cup {" ", "-", "_", "'", "."}

NameProbed ==
    probe.fn = "validateUserName" /\ probe.done /\ probe.arg # Undefined

ImageProbed == probe.fn = "validateImageData" /\ probe.done

\* C6 as stated: under a png or jpeg prefix, validateImageData accepts every
\* payload that decodes to at most 10 MiB, one of exactly 10 MiB included,
\* and rejects every payload that decodes to more than 10 MiB.
C6_SizeLimitIsTenMiB ==
    (/\ ImageProbed
     /\ probe.arg.kind = "string"
     /\ probe.arg.head \in {PngHead, JpegHead}
     /\ atob(probe.arg) > 0)
    => (probe.out.isValid <=> atob(probe.arg) <= TenMiB)

RequestProbed ==
    probe.fn = "validateCreatePixelCardRequest" /\ probe.done /\ probe.arg.isObject

\* C7: the error list of validateCreatePixelCardRequest is the errors of
\* validateUserName(userName) followed by the errors of
\* validateImageData(imageData), and isValid holds only when both are empty.
C7_ErrorsAggregated ==
    RequestProbed =>
        LET nameErrors == validateUserName(probe.arg.userName).errors
            imageErrors == validateImageData(probe.arg.imageData).errors
        IN  /\ probe.out.errors = nameErrors \o imageErrors
            /\ probe.out.isValid <=> (nameErrors = <<>> /\ imageErrors = <<>>)

\* a request with an invalid name and an invalid image reported both
C7_Witness ==
    /\ RequestProbed
    /\ probe.arg.userName = <<"A", "!">>
    /\ probe.arg.imageData = ElevenMiB
    /\ probe.out.errors = <<"User name contains invalid characters",
                            "Image size exceeds maximum limit of 10MB">>

----------------------------------------------------------------------------
(* Properties: savePixelCard (checked under Spec and SpecWide) *)

StepOrder == <<"validate", "decode", "upload", "insert">>

InsertAttempted(c) == \E i \in 1..Len(calls[c].steps) : calls[c].steps[i] = "insert"
UploadAttempted(c) == \E i \in 1..Len(calls[c].steps) : calls[c].steps[i] = "upload"

RowPaths == { table[i].image_path : i \in 1..Len(table) }

\* C1: the steps run in the order validate, decode, upload, insert, each only
\* after the one before it succeeded; an insert is attempted only after an
\* upload that stored the blob and gave a path and a public URL, and after a
\* failed upload no insert is attempted.
C1_StepsInOrder ==
    /\ \A c \in Calls :
        /\ calls[c].steps = SubSeq(StepOrder, 1, Len(calls[c].steps))
        /\ calls[c].failedStep # "" =>
              calls[c].steps[Len(calls[c].steps)] = calls[c].failedStep
        /\ InsertAttempted(c) =>
              /\ calls[c].uploaded
              /\ calls[c].imagePath \in BlobPaths(storage)
              /\ calls[c].imageUrl = PublicUrl(calls[c].imagePath)
        /\ calls[c].failedStep = "upload" => ~InsertAttempted(c)
    /\ Len(table) <= Cardinality({ c \in Calls : InsertAttempted(c) })
    /\ \A p \in RowPaths : \E c \in Calls : InsertAttempted(c) /\ calls[c].imagePath = p

\* one execution went through all four steps, another stopped at the upload
C1_Witness ==
    \E c, d \in Calls :
        /\ calls[c].pc = "done" /\ calls[c].steps = StepOrder
        /\ calls[d].failedStep = "upload" /\ calls[d].error[1] = StorageUploadFailed

\* the MIME type a data URI names, "" when it names none
StatedMime(img) ==
    IF Len(img.head) = 3 /\ img.head[1] = "data:" /\ img.head[3] = ";base64,"
    THEN img.head[2] ELSE ""

ErrorDetails(c) == { calls[c].error[2][i] : i \in 1..Len(calls[c].error[2]) }

\* C2: a request whose data URI names a MIME type other than image/png and
\* image/jpeg, or decodes to nothing, or decodes to more than 10 MiB, makes
\* savePixelCard raise with no upload and no insert; the over-size request is
\* refused by validation with the size violation.
C2_InvalidImageNeverUploaded ==
    LET call == calls[1]
        img == call.request.imageData
    IN  (call.pc # "idle" /\ call.request.isObject /\ img.kind = "string") =>
          /\ (\/ StatedMime(img) \notin {"image/png", "image/jpeg"}
              \/ atob(img) = 0
              \/ atob(img) > TenMiB)
                => /\ call.pc = "failed"
                   /\ call.error # NoError
                   /\ ~UploadAttempted(1) /\ ~InsertAttempted(1)
                   /\ storage = {} /\ table = <<>>
          /\ (StatedMime(img) \in {"image/png", "image/jpeg"} /\ atob(img) > TenMiB)
                => /\ call.failedStep = "validate"
                   /\ "Image size exceeds maximum limit of 10MB" \in ErrorDetails(1)

\* the 11 MiB request was refused by validation
C2_Witness ==
    /\ calls[1].request.isObject
    /\ calls[1].request.imageData = ElevenMiB
    /\ calls[1].request.userName = <<"A", "l">>
    /\ calls[1].failedStep = "validate"
    /\ storage = {}

\* a stored blob that no row names and no running execution is about to name
Orphaned(p) ==
    /\ p \in BlobPaths(storage)
    /\ p \notin RowPaths
    /\ \A c \in Calls : calls[c].pc = "inserting" => calls[c].imagePath # p

\* C3: no step removes a blob; when the insert is refused after the upload the
\* blob is left without a row, and a blob without a row stays so: the orphan
\* persists.
C3_OrphanPersists ==
    [][ /\ BlobPaths(storage) \subseteq BlobPaths(storage')
        /\ \A p \in BlobPaths(storage) : Orphaned(p) => Orphaned(p)'
        /\ \A c \in Calls :
              (/\ calls[c].pc = "inserting"
               /\ calls'[c].pc = "failed"
               /\ calls'[c].error[1] = DatabaseInsertFailed)
                 => Orphaned(calls[c].imagePath)' ]_vars

\* an insert failed after its upload and the blob has no row
C3_Witness ==
    \E c \in Calls :
        /\ calls[c].failedStep = "insert"
        /\ calls[c].error[1] = DatabaseInsertFailed
        /\ Orphaned(calls[c].imagePath)

\* C4: the error of a failed savePixelCard tells the step that failed: two
\* failures in different steps never carry the same message.
C4_ErrorTellsStep ==
    \A c \in Calls :
        calls[c].pc = "failed" =>
            /\ calls[c].failedStep \in {"validate", "decode", "upload", "insert"}
            /\ calls[c].error # NoError
            /\ \A d \in Calls :
                  (calls[d].pc = "failed" /\ calls[d].error[1] = calls[c].error[1])
                     => calls[d].failedStep = calls[c].failedStep

\* a failed upload beside a failed insert
C4_Witness ==
    \E c, d \in Calls :
        /\ calls[c].failedStep = "upload" /\ calls[c].error[1] = StorageUploadFailed
        /\ calls[d].failedStep = "insert" /\ calls[d].error[1] = DatabaseInsertFailed

\* C8 as stated: every row of pixel_cards has a user_name of 1..50 allowed
\* characters, a file_size in 1..10 MiB and a mime_type of image/png or
\* image/jpeg.
C8_RowsSatisfyInvariants ==
    \A i \in 1..Len(table) :
        /\ Len(table[i].user_name) \in 1..50
        /\ \A j \in 1..Len(table[i].user_name) : StatedNameChar(table[i].user_name[j])
        /\ table[i].file_size \in 1..TenMiB
        /\ table[i].mime_type \in {"image/png", "image/jpeg"}

----------------------------------------------------------------------------
(* Properties: getPixelCardById (checked under SpecRepo) *)

\* 8-4-4-4-12 hexadecimal digits, version 1..5, variant 8, 9, a or b
CanonicalUuid(id) ==
    /\ Len(id) = 36
    /\ \A p \in {9, 14, 19, 24} : id[p] = "-"
    /\ \A p \in (1..36) \ {9, 14, 19, 24} : LowerHex(id[p]) \in HexDigits
    /\ id[15] \in {"1", "2", "3", "4", "5"}
    /\ LowerHex(id[20]) \in {"8", "9", "a", "b"}

ReadById == lastRead.op = "getPixelCardById"

\* C9: getPixelCardById with an identifier that is not a canonical UUID raises
\* the format error and sends no query.
C9_BadIdRaisesBeforeQuery ==
    (ReadById /\ ~CanonicalUuid(lastRead.id)) =>
        /\ lastRead.outcome = "raised"
        /\ lastRead.error = InvalidIdFormat
        /\ lastRead.queries = 0
        /\ lastRead.backend = "none"

\* an identifier of the right length with one wrong character was refused
C9_Witness ==
    /\ ReadById
    /\ Len(lastRead.id) = 36
    /\ ~CanonicalUuid(lastRead.id)
    /\ lastRead.outcome = "raised"
    /\ lastRead.queries = 0

\* the entity is the row, field by field
EntityOfRow(card, row) ==
    /\ card.id = row.id /\ card.userName = row.user_name
    /\ card.imagePath = row.image_path /\ card.imageUrl = row.image_url
    /\ card.createdAt.ms = row.created_at.ms /\ card.updatedAt.ms = row.updated_at.ms
    /\ card.fileSize = row.file_size /\ card.mimeType = row.mime_type

\* C10: for a well-formed identifier getPixelCardById returns null on the
\* not-found answer, raises on every other failure, and returns the entity of
\* the row when the backend gives a row.
C10_AnswersMapped ==
    (ReadById /\ CanonicalUuid(lastRead.id)) =>
        /\ lastRead.queries = 1
        /\ lastRead.backend = NOT_FOUND_CODE =>
              (lastRead.outcome = "returned" /\ lastRead.value = <<>>)
        /\ lastRead.backend \in OtherErrorCodes =>
              (lastRead.outcome = "raised" /\ lastRead.error = FetchFailed)
        /\ lastRead.backend = "row" =>
              /\ lastRead.outcome = "returned"
              /\ Len(lastRead.value) = 1
              /\ \E i \in 1..Len(table) :
                    /\ SameUuid(table[i].id, lastRead.id)
                    /\ EntityOfRow(lastRead.value[1], table[i])

\* a well-formed identifier without a row came back as null
C10_Witness ==
    /\ ReadById
    /\ CanonicalUuid(lastRead.id)
    /\ lastRead.backend = NOT_FOUND_CODE
    /\ lastRead.outcome = "returned"
    /\ lastRead.value = <<>>

----------------------------------------------------------------------------
(* Properties: pixelCardExists (checked under SpecRepo) *)

ExistsAsked == lastRead.op = "pixelCardExists"

\* C11 as stated: pixelCardExists returns true only for a well-formed
\* identifier whose row the backend confirms, returns false without raising
\* for a malformed identifier and for the not-found answer, and raises for
\* every other backend error.
C11_OtherErrorsRaise ==
    ExistsAsked =>
        /\ (lastRead.outcome = "returned" /\ lastRead.value = <<TRUE>>) =>
              (CanonicalUuid(lastRead.id) /\ lastRead.backend = "row")
        /\ ~CanonicalUuid(lastRead.id) =>
              (lastRead.outcome = "returned" /\ lastRead.value = <<FALSE>>)
        /\ lastRead.backend = NOT_FOUND_CODE =>
              (lastRead.outcome = "returned" /\ lastRead.value = <<FALSE>>)
        /\ lastRead.backend \in OtherErrorCodes => lastRead.outcome = "raised"

----------------------------------------------------------------------------
(* Properties: the listings (checked under SpecList) *)

Listed == lastRead.op \in {"getAllPixelCards", "getPixelCardsByUserName"}

\* the rows a listing selects among the first n rows of the table
SelectedAt(n) == Selected(lastRead, SubSeq(table, 1, n))

\* C12: a listing whose count query answers 0 returns an empty list with
\* total 0 and totalPages 0 without raising and sends no second query; for
\* getAllPixelCards({page: 1, limit: 12}) the pagination is {1, 12, 0, 0}.
C12_EmptyAfterCountOnly ==
    (Listed /\ lastRead.queries >= 1 /\ lastRead.error # CountFailed
        /\ SelectedAt(lastRead.countedAt) = <<>>) =>
        /\ lastRead.pc = "done"
        /\ lastRead.queries = 1
        /\ lastRead.outcome = "returned"
        /\ lastRead.value[1].pixelCards = <<>>
        /\ lastRead.value[1].pagination.total = 0
        /\ lastRead.value[1].pagination.totalPages = 0
        /\ lastRead.params = PaginationParams(Given(1), Given(12)) =>
              lastRead.value[1].pagination =
                  [page |-> 1, limit |-> 12, total |-> 0, totalPages |-> 0]

\* getAllPixelCards({page: 1, limit: 12}) answered over an empty table
C12_Witness ==
    /\ lastRead.op = "getAllPixelCards"
    /\ lastRead.params = PaginationParams(Given(1), Given(12))
    /\ lastRead.countedAt = 0
    /\ lastRead.backend = "count"
    /\ lastRead.outcome = "returned"
    /\ lastRead.queries = 1

\* the listing returned and no row was written between its two queries
ListedUndisturbed ==
    /\ Listed
    /\ lastRead.outcome = "returned"
    /\ lastRead.queries = 2 => lastRead.fetchedAt = lastRead.countedAt

\* page and limit were given and are in the ranges of the pagination contract
ParamsInContract ==
    /\ lastRead.params.page # Absent /\ lastRead.params.page[1] >= 1
    /\ lastRead.params.limit # Absent /\ lastRead.params.limit[1] \in 1..100

\* C13 as stated: with no writes during the call a listing with page and
\* limit returns the rows at positions (page-1)*limit .. page*limit-1 of its
\* rows (all rows, or those whose user_name equals the given name) ordered by
\* creation time descending, total = the number of those rows and
\* totalPages = ceil(total / limit).
C13_PageOfNewestFirst ==
    (ListedUndisturbed /\ ParamsInContract) =>
        LET page == lastRead.params.page[1]
            limit == lastRead.params.limit[1]
            rows == OrderNewestFirst(SelectedAt(lastRead.countedAt))
            response == lastRead.value[1]
        IN  /\ response.pixelCards =
                  MapToResponse(RangeOf(rows, (page - 1) * limit, page * limit - 1))
            /\ response.pagination.total = Len(rows)
            /\ response.pagination.totalPages = CeilDiv(Len(rows), limit)

----------------------------------------------------------------------------
(* Properties: pagination arguments (checked under SpecPure) *)

Normalized == probe.fn = "validateAndNormalizePagination" /\ probe.done

\* C14: for every page and limit (absent, zero, negative, fractional, above
\* the range) validateAndNormalizePagination returns page >= 1 and
\* 1 <= limit <= 100, page 1 for an absent page and limit 20 for an absent
\* limit, and offset = (page - 1) * limit of the returned values.
C14_NormalizedInRange ==
    Normalized =>
        /\ probe.out.page >= 1
        /\ probe.out.limit >= 1 /\ probe.out.limit <= 100
        /\ probe.arg.page = UndefinedNumber => probe.out.page = 1
        /\ probe.arg.limit = UndefinedNumber => probe.out.limit = 20
        /\ probe.out.offset = (probe.out.page - 1) * probe.out.limit

\* a fractional page with a limit above the range was normalized
C14_Witness ==
    /\ Normalized
    /\ probe.arg.page = NumberOf(5)
    /\ probe.arg.limit = NumberOf(201)
    /\ probe.out = [page |-> 2, limit |-> 100, offset |-> 100]

PaginationChecked == probe.fn = "validatePaginationParams" /\ probe.done

IsGiven(value) == value.kind # "undefined"
PositiveInteger(value) ==
    value.kind = "number" /\ value.halves % 2 = 0 /\ value.halves >= 2
WithinLimits(value) ==
    value.kind = "number" /\ value.halves >= 2 /\ value.halves <= 200

\* the messages of a result, as a set
Reported(result) == { result.errors[i] : i \in 1..Len(result.errors) }

\* C15 as stated: validatePaginationParams is valid exactly when the page, if
\* given, is a positive integer and the limit, if given, is within 1..100; it
\* reports a violation for every given page that is not a positive integer
\* and for every given limit outside 1..100.
C15_ValidExactlyInContract ==
    PaginationChecked =>
        LET pageOk == IsGiven(probe.arg.page) => PositiveInteger(probe.arg.page)
            limitOk == IsGiven(probe.arg.limit) => WithinLimits(probe.arg.limit)
        IN  /\ probe.out.isValid <=> (pageOk /\ limitOk)
            /\ ~pageOk <=> PageMessage \in Reported(probe.out)
            /\ ~limitOk <=> LimitMessage \in Reported(probe.out)

----------------------------------------------------------------------------
(* Properties: calculateBase64FileSize (checked under SpecPure) *)

Base64Alphabet == LowerCase \cup UpperCase \cup Digits \cup {"+", "/"}

\* the number of '=' characters at the end of a text
TrailingPadding(text) ==
    Len(text) - Least({ n \in 0..Len(text) : \A i \in (n + 1)..Len(text) : text[i] = "=" })

\* characters of the alphabet followed by padding only
IsBase64(text) ==
    \A i \in 1..(Len(text) - TrailingPadding(text)) : text[i] \in Base64Alphabet

Sized == probe.fn = "calculateBase64FileSize" /\ probe.done

\* C16: for a base64 string of length L with k trailing '=' characters, bare
\* or behind a data-URI prefix, calculateBase64FileSize returns
\* floor(L*3/4) - k; for "data:image/png;base64,aGVsbG8=" it returns 5.
C16_SizeFromLengthAndPadding ==
    (Sized /\ IsBase64(probe.arg.content)) =>
        /\ probe.out = (Len(probe.arg.content) * 3) \div 4
                            - TrailingPadding(probe.arg.content)
        /\ (probe.arg.prefixed /\ probe.arg.content = Hello) => probe.out = 5

\* the size of "data:image/png;base64,aGVsbG8=" was computed
C16_Witness ==
    /\ Sized
    /\ probe.arg.prefixed
    /\ probe.arg.content = Hello
    /\ probe.out = 5

----------------------------------------------------------------------------
(* Properties: rows, entities and inserts (checked under SpecPure) *)

\* a valid row became an entity and the entity an insert
RoundTripped ==
    /\ probe.fn = "createInsertFromRequest"
    /\ probe.done
    /\ validatePixelCardRow(probe.arg.row)
    /\ ~probe.out.threw

\* the same instant: the timestamp string and the Date agree to the millisecond
SameInstant(timestamp, date) == timestamp.ms = date.ms

----------------------------------------------------------------------------
(* Properties: rows read by getPixelCardById (checked under SpecRepo) *)

\* C18 as stated: the transformation getPixelCardById applies to the row the
\* backend returns fails when the row's mime_type is not image/png or
\* image/jpeg, and no entity with another MIME type is returned.
C18_InvalidRowsRefused ==
    (ReadById /\ lastRead.backend = "row") =>
        /\ (\A i \in RowsWithId(lastRead.id) :
                table[i].mime_type \notin ALLOWED_MIME_TYPES)
              => lastRead.outcome = "raised"
        /\ (lastRead.outcome = "returned" /\ lastRead.value # <<>>)
              => lastRead.value[1].mimeType \in ALLOWED_MIME_TYPES

----------------------------------------------------------------------------
(* Properties: getRecentPixelCards (checked under SpecList) *)

RecentAsked ==
    /\ lastRead.op = "getRecentPixelCards"
    /\ lastRead.outcome = "returned"
    /\ lastRead.params.limit # Absent

\* PIXEL_CARD_CONSTANTS.MAX_PAGINATION_LIMIT: the upper bound of the limit in the
\* pagination contract
MAX_PAGINATION_LIMIT == 100

\* C19 as stated: getRecentPixelCards(N) returns the newest rows first, as
\* many as N clamped to [1, M] allows, where M is the upper bound the listings
\* apply to their limit, and M is the maximum of the pagination contract, 100.
C19_RecentClampedToContractMaximum ==
    RecentAsked =>
        LET clamped == Min(Max(1, lastRead.params.limit[1]), MAX_PAGINATION_LIMIT)
            rows == OrderNewestFirst(SubSeq(table, 1, lastRead.fetchedAt))
        IN  /\ lastRead.value[1] = MapToResponse(RangeOf(rows, 0, clamped - 1))
            /\ lastRead.limit = clamped

----------------------------------------------------------------------------
(* Properties: pixelateImageWithBackgroundRemoval (checked under SpecGemini) *)

Pixelated == probe.fn = "pixelateImageWithBackgroundRemoval" /\ probe.done

CarriesImage(part) == part.type = "inlineData"

\* C20: a call sends one request and no more; it returns the data URI made
\* of the payload of the first part when that part carries an image, and
\* raises when the request fails or the response has no image.
C20_OneRequestImageOrError ==
    /\ probe.out.requests <= 1
    /\ Pixelated =>
        LET response == probe.out.response
        IN  /\ probe.out.requests = 1
            /\ (response.kind = "answered" /\ response.parts # <<>>
                    /\ CarriesImage(response.parts[1])) =>
                  /\ probe.out.outcome = "returned"
                  /\ probe.out.value = <<PngDataUri(response.parts[1].data)>>
            /\ (\/ response.kind = "rejected"
                \/ \A i \in 1..Len(response.parts) : ~CarriesImage(response.parts[i])) =>
                  /\ probe.out.outcome = "raised"
                  /\ probe.out.value = <<>>

\* a rejected request ended the call with an error after one request
C20_Witness ==
    /\ Pixelated
    /\ probe.out.response.kind = "rejected"
    /\ probe.out.outcome = "raised"
    /\ probe.out.requests = 1

----------------------------------------------------------------------------
(* Properties: the lifecycle of rows and blobs (checked under SpecList) *)

\* a savePixelCard execution moved in this step
SaveStepped == calls' # calls

\* a read operation began, went on or was taken in this step
ReadStepped == lastRead' # lastRead

\* the rows and blobs there were are still there, as they were
StoreKept ==
    /\ Len(table') >= Len(table)
    /\ SubSeq(table', 1, Len(table)) = table
    /\ storage \subseteq storage'
    /\ \A b \in storage' \ storage : b.path \notin BlobPaths(storage)

\* C21: over all savePixelCard, getAllPixelCards, getPixelCardById,
\* getPixelCardsByUserName, pixelCardExists and getRecentPixelCards steps, rows
\* and blobs are only added, and only by savePixelCard; no existing row or blob
\* is changed or removed, and a read leaves table and bucket as they are.
C21_CreatedOnceNeverChanged ==
    [][/\ StoreKept
       /\ (table' # table \/ storage' # storage) => SaveStepped
       /\ ReadStepped => (table' = table /\ storage' = storage)]_vars

\* an upload was refused because a blob already has the path, and the blob
\* is the one that was there
C21_Witness ==
    /\ calls[1].failedStep = "upload"
    /\ calls[1].error = <<StorageUploadFailed, DuplicateError>>
    /\ calls[1].imagePath = SeedPath(1)
    /\ [path |-> SeedPath(1), size |-> 3, contentType |-> "image/png"] \in storage
    /\ Len(table) > MAX_PAGE_SIZE

----------------------------------------------------------------------------
(* Properties: PixelIDCardGenerator (checked under SpecUI) *)

ChainStages == <<"validate", "pixelate", "validate result", "save">>

\* what holds of every handlePhotoCapture execution, running or over
ChainInOrder(ch) ==
    /\ ch.stages = SubSeq(ChainStages, 1, Len(ch.stages))
    /\ ch.ai.requests = (IF Len(ch.stages) >= 2 THEN 1 ELSE 0)
    /\ (ch.call # 0) = (Len(ch.stages) = 4)
    /\ ch.failed # "" => (ch.pc = "done" /\ ch.call = 0 /\ ch.saved = "none")
    /\ Len(ch.stages) = 4 =>
            /\ ch.failed = ""
            /\ validateImageData(ch.image).isValid
            /\ ch.ai.outcome = "returned"
            /\ ch.result # Null
            /\ validateImageData(ch.result[1]).isValid
    /\ ch.pc = "saving" => calls[ch.call].request = Request(ch.userName, ch.result[1])

ChainsInOrder == \A k \in ChainIds : ChainInOrder(chains[k])

\* savePixelCard's failure reaching the k-th execution in this step
SaveFailureCaught(k) ==
    /\ k \in ChainIds
    /\ chains[k].pc = "saving"
    /\ chains'[k].pc = "done"
    /\ chains'[k].saved = "failed"

RunningChains == { k \in ChainIds : InFlight(k) }

\* C23: at most one handlePhotoCapture execution is running at any time,
\* and isLoading is true while a request to the model is awaited.
C23_OneChainLoadingShown ==
    /\ Cardinality(RunningChains) <= 1
    /\ (\E k \in ChainIds : chains[k].pc = "pixelating") => ui.isLoading

\* savePixelCard being called by the k-th execution in this step
SaveCalled(k) ==
    /\ k \in ChainIds
    /\ chains[k].pc = "pixelating"
    /\ chains'[k].pc = "saving"

DisplayHasImage == ui.step = "display" => ui.processedImage # Null
StepHasName ==
    ui.step \in {"capture", "display"} =>
        (ui.userName # <<>> /\ Trim(ui.userName) = ui.userName)

\* C24: in step 'display' processedImage is set; in steps 'capture' and
\* 'display' userName is a non-empty trimmed name; and the name given to
\* savePixelCard is the userName of the component at that moment.
C24_DisplayHasImageAndName ==
    [][ /\ DisplayHasImage'
        /\ StepHasName'
        /\ \A k \in ChainIds : SaveCalled(k) =>
                calls'[chains'[k].call].request.userName = ui'.userName ]_vars

\* C25: a save outcome is shown only in step 'display', and then it is the
\* outcome of a finished save of the image held in processedImage.
C25_OutcomeOfShownImage ==
    (ui.saveSuccess \/ ui.saveError # Null) =>
        /\ ui.step = "display"
        /\ \E k \in ChainIds :
            /\ chains[k].pc = "done"
            /\ chains[k].result = ui.processedImage
            /\ chains[k].saved = (IF ui.saveSuccess THEN "succeeded" ELSE "failed")

\* the k-th execution is over, isLoading is false, and the page shows the
\* error in step 'capture' (generation failed) or went to 'display'
Ended(k) ==
    /\ k \in ChainIds
    /\ chains[k].pc = "done"
    /\ ~ui.isLoading
    /\ IF chains[k].failed # ""
       THEN ui.step = "capture" /\ ui.error # Null
       ELSE chains[k].stages = ChainStages /\ chains[k].saved # "none"

\* C26: when the model and the backend answer, every handlePhotoCapture
\* execution ends with isLoading false, in step 'capture' with the error set
\* or after step 'display' was reached.
C26_LoadingEnds ==
    \A k \in 1..MaxChains : (k \in ChainIds /\ InFlight(k)) ~> Ended(k)

C26_Witness ==
    \E k, j \in ChainIds :
        /\ Ended(k) /\ chains[k].failed = "pixelate"
        /\ chains[j].pc = "done" /\ chains[j].saved = "succeeded"
        /\ ui.error = NonNull(PixelateFailed)


----------------------------------------------------------------------------
(* Properties: validation against decoding (checked under SpecWide) *)

\* C27: a request accepted by validateCreatePixelCardRequest is accepted by
\* processImageData, so a savePixelCard that passed validation fails in
\* upload or insert only.
C27_ValidatedRequestsDecode ==
    (calls[1].pc # "idle" /\ validateCreatePixelCardRequest(calls[1].request).isValid) =>
        /\ processImageData(calls[1].request.imageData).ok
        /\ calls[1].pc = "failed" => calls[1].failedStep \in {"upload", "insert"}


----------------------------------------------------------------------------
(* Properties: rows and their blobs (checked under Spec) *)

\* the savePixelCard execution that uploaded the blob of a row and then
\* inserted the row
SavedBy(row, c) ==
    /\ calls[c].uploaded
    /\ calls[c].imagePath = row.image_path
    /\ calls[c].fileSize = row.file_size
    /\ calls[c].mimeType = row.mime_type
    /\ "insert" \in { calls[c].steps[i] : i \in 1..Len(calls[c].steps) }

\* C28: every row refers to a stored blob: its image_path is the path of a
\* blob uploaded by the savePixelCard execution that inserted the row, with
\* the row's file_size and mime_type, and no two rows have the same path.
C28_RowsReferToTheirBlob ==
    /\ \A i \in 1..Len(table) :
        /\ [path |-> table[i].image_path, size |-> table[i].file_size,
            contentType |-> table[i].mime_type] \in storage
        /\ \E c \in Calls : SavedBy(table[i], c)
    /\ \A i, j \in 1..Len(table) :
        table[i].image_path = table[j].image_path => i = j

C28_Witness ==
    /\ Len(table) = 1
    /\ \E c, d \in Calls :
        /\ SavedBy(table[1], c)
        /\ calls[c].pc = "done"
        /\ calls[d].failedStep = "upload"
        /\ calls[d].error = <<StorageUploadFailed, DuplicateError>>
        /\ calls[d].imagePath = table[1].image_path


----------------------------------------------------------------------------
(* Properties: listings beside inserts (checked under SpecList) *)

\* C29: a returned GalleryResponse has min(limit, max(0, total - (page-1)*limit))
\* items for its total, totalPages = ceil(total / limit), and total = 0 only
\* when the rows it looks at were none when it was produced, whatever
\* savePixelCard inserts during the listing.
C29_ResponseConsistent ==
    (Listed /\ lastRead.outcome = "returned") =>
        LET response == lastRead.value[1]
            p == response.pagination
        IN  /\ Len(response.pixelCards) =
                    Min(p.limit, Max(0, p.total - (p.page - 1) * p.limit))
            /\ p.totalPages = CeilDiv(p.total, p.limit)
            /\ p.total = 0 =>
                    (lastRead.queries = 1 /\ SelectedAt(lastRead.countedAt) = <<>>)


----------------------------------------------------------------------------
(* Properties: CameraView (checked under SpecCameraFair) *)

\* C30: once CameraView is unmounted every stream it obtained gets its
\* tracks stopped, whatever the order of startCamera, the answer of
\* getUserMedia, retry and unmount; onCapture is given only images that
\* pass validateImageData and isCapturing is false after every capture.
C30_NoStreamLeftActive ==
    /\ [](~camera.isCapturing /\ \A img \in camera.passed : validateImageData(img).isValid)
    /\ (camera.phase = "unmounted") ~> (camera.live = {})

====
